---------------------------- MODULE Spec2Model ----------------------------
(***************************************************************************)
(* Audio-Visual-TAD: dense target assignment, multi-task loss and decode   *)
(* pipeline of PtTransformer (libs/modeling/meta_archs.py, losses.py).     *)
(*                                                                         *)
(* Real-valued tensors are modelled with exact arithmetic: time stamps are *)
(* integers in feature-grid units, and every quotient the code forms is a  *)
(* normalised rational <<n, d>> (d > 0).  Tensors indexed from 0 in the    *)
(* code are sequences indexed from 1 here.                                 *)
(***************************************************************************)
EXTENDS Integers, Sequences, FiniteSets, TLC

VARIABLES
    train_center_sample, \* self.train_center_sample: "none" | "radius"
    points,              \* concat_points: rows (t, reg_min, reg_max, stride)
    gt_segments,         \* forward(): gt_segments, one N x 2 tensor per video
    gt_labels_v,         \* forward(): gt_labels_v
    gt_labels_n,         \* forward(): gt_labels_n
    pc,                  \* position of the caller (forward / a driver)
    raised,              \* the exception that ended the call, "none" if none
    gt_targets,          \* what label_points returned to forward()
    min_len_inds,        \* label_points_single_video: min_len_inds, per video
    giou_args,           \* ctr_giou_loss_1d: the tensors it is called with
    giou_ret,            \* ctr_giou_loss_1d: what it returned
    raised_in,           \* the function whose statement raised, "none" if none
    video_list,          \* forward: the batch of dataset items
    fpn_masks_visual,    \* forward: validity of every point, visual stream
    fpn_masks_audio,     \* forward: validity of every point, audio stream
    out_offsets_visual,  \* forward: predicted (left, right) of every point
    init_loss_norm,      \* train_cfg['init_loss_norm']
    loss_normalizer,     \* self.loss_normalizer
    losses_visaul,       \* forward: dict returned by the visual losses() call
    losses_audio,        \* forward: dict returned by the audio losses() call
    losses,              \* forward: the dict it returns in training mode
    test_cfg,            \* the test_cfg entries the decoder reads
    preds,               \* inference: mask, fused class probabilities and
                         \* offsets of every point of the one video
    results,             \* inference: rows returned by inference_single_video
    nms_results,         \* postprocessing: rows left by batched_nms
    processed_results,   \* postprocessing: rows in seconds, clipped
    video_item,          \* __getitem__: the database entry self.data_list[idx]
    dataset_cfg,         \* EpicKitchensDataset: the attributes __getitem__ reads
    data_dict,           \* __getitem__ / truncate_feats: the data dict
    trunc,               \* truncate_feats: its locals
    json_db,             \* _load_json_db: json_data['database'], in file order
    dict_db,             \* _load_json_db: the tuple it returns
    train_args,          \* main: args.start_epoch, ckpt_freq, stop_save_epoch
    max_epochs,          \* main: max_epochs
    epoch,               \* main: the loop variable
    last_trained,        \* main: epochs passed to train_one_epoch, in order
    checkpoints,         \* main: epochs passed to save_checkpoint
    model_cfg,           \* PtTransformer.__init__: the arguments it reads
    max_div_factor,      \* self.max_div_factor
    feats_lens,          \* preprocessing: length of the one input sequence
    max_len,             \* preprocessing: length of the padded batch
    num_pos_seen         \* num_pos of the losses() calls made so far

vars == <<train_center_sample, points, gt_segments, gt_labels_v, gt_labels_n,
          pc, raised, gt_targets, min_len_inds, giou_args, giou_ret,
          raised_in, video_list, fpn_masks_visual, fpn_masks_audio,
          out_offsets_visual, init_loss_norm, loss_normalizer,
          losses_visaul, losses_audio, losses,
          test_cfg, preds, results, nms_results, processed_results,
          video_item, dataset_cfg, data_dict, trunc, json_db, dict_db,
          train_args, max_epochs, epoch, last_trained, checkpoints,
          model_cfg, max_div_factor, feats_lens, max_len, num_pos_seen>>

decodeVars == <<test_cfg, preds, results, nms_results, processed_results>>

\* value of the decoder's variables where no inference is modelled
NoDecode ==
    /\ test_cfg = <<>>
    /\ preds = <<>>
    /\ results = <<>>
    /\ nms_results = <<>>
    /\ processed_results = <<>>

\* the variables of a training step besides those of the assigner
trainInputs == <<video_list, fpn_masks_visual, fpn_masks_audio,
                 out_offsets_visual, init_loss_norm>>

trainVars == <<video_list, fpn_masks_visual, fpn_masks_audio,
               out_offsets_visual, init_loss_norm, loss_normalizer,
               losses_visaul, losses_audio, losses>>

\* an empty dict
NoLosses == [k \in {} |-> 0]

\* value of the training-step variables where no training step is modelled
NoTrainStep ==
    /\ video_list = <<>>
    /\ fpn_masks_visual = <<>>
    /\ fpn_masks_audio = <<>>
    /\ out_offsets_visual = <<>>
    /\ init_loss_norm = <<1, 1>>
    /\ loss_normalizer = <<1, 1>>
    /\ losses_visaul = NoLosses
    /\ losses_audio = NoLosses
    /\ losses = NoLosses

\* the variables of the assigner and of the regression loss
assignVars == <<train_center_sample, points, gt_segments, gt_labels_v,
                gt_labels_n, gt_targets, min_len_inds>>

giouVars == <<giou_args, giou_ret>>

\* the variables of the dataset, of the training script, of the constructor
\* and preprocessing, and the record of the losses() calls
datasetVars == <<video_item, dataset_cfg, data_dict, trunc>>

loadVars == <<json_db, dict_db>>

mainVars == <<train_args, max_epochs, epoch, last_trained, checkpoints>>

prepVars == <<model_cfg, max_div_factor, feats_lens, max_len>>

hostVars == <<datasetVars, loadVars, mainVars, prepVars, num_pos_seen>>

NoDataset ==
    /\ video_item = <<>>
    /\ dataset_cfg = <<>>
    /\ data_dict = <<>>
    /\ trunc = <<>>

NoLoad ==
    /\ json_db = <<>>
    /\ dict_db = <<>>

NoMain ==
    /\ train_args = <<>>
    /\ max_epochs = 0
    /\ epoch = 0
    /\ last_trained = <<>>
    /\ checkpoints = {}

NoPrep ==
    /\ model_cfg = <<>>
    /\ max_div_factor = 1
    /\ feats_lens = 0
    /\ max_len = 0

\* value of these variables where the model itself is driven
NoHost ==
    /\ NoDataset
    /\ NoLoad
    /\ NoMain
    /\ NoPrep
    /\ num_pos_seen = <<>>

---------------------------------------------------------------------------
(* Exact arithmetic on rationals <<n, d>>, d > 0, in lowest terms.         *)

Abs(x) == IF x < 0 THEN -x ELSE x

Max(a, b) == IF a >= b THEN a ELSE b

Min(a, b) == IF a <= b THEN a ELSE b

RECURSIVE Gcd(_, _)
Gcd(a, b) == IF b = 0 THEN a ELSE Gcd(b, a % b)

Rat(n, d) ==
    LET s == IF d < 0 THEN -1 ELSE 1
        g == Gcd(Abs(n), Abs(d))
    IN  <<(s * n) \div g, (s * d) \div g>>

Zero == <<0, 1>>

One == <<1, 1>>

RAdd(a, b) == Rat(a[1] * b[2] + b[1] * a[2], a[2] * b[2])

RSub(a, b) == Rat(a[1] * b[2] - b[1] * a[2], a[2] * b[2])

RMul(a, b) == Rat(a[1] * b[1], a[2] * b[2])

RDiv(a, b) == Rat(a[1] * b[2], a[2] * b[1])

RLe(a, b) == a[1] * b[2] <= b[1] * a[2]

RLt(a, b) == a[1] * b[2] < b[1] * a[2]

RMax(a, b) == IF RLe(b, a) THEN a ELSE b

RMin(a, b) == IF RLe(a, b) THEN a ELSE b

RECURSIVE SumTo(_, _)
SumTo(f, n) == IF n = 0 THEN 0 ELSE f[n] + SumTo(f, n - 1)

---------------------------------------------------------------------------
(* Model configuration                                                     *)

\* bounds of the model
MaxTime == 4
BaseAnchors == 1

\* num_classes_v / num_classes_n of the constructor; C is the background id
num_classes_verb == 2
num_classes_noun == 4

\* train_cfg['center_sample_radius'], doubled (the radius is 1.5)
center_sample_radius_x2 == 3

\* One pyramid level of the point generator: T points spaced by the level's
\* stride, each carrying (t, reg_min, reg_max, stride).
LevelPoints(T, stride, reg_min, reg_max) ==
    [i \in 1..T |-> [t |-> (i - 1) * stride, reg_min |-> reg_min,
                     reg_max |-> reg_max, stride |-> stride]]

\* single level, six anchors t = 0..5, stride 1, regression range [0, 8]
PointsOneLevel == LevelPoints(6, 1, 0, 8)

\* two levels over a sequence of length MaxTime: strides 1 and 2, regression
\* ranges [0, 2] and [2, 10000]
PointsTwoLevels ==
    LevelPoints(MaxTime, 1, 0, 2) \o LevelPoints((MaxTime + 1) \div 2, 2, 2, 10000)

\* Raw ground truth in feature-grid units; end > start is not guaranteed.
GtSegs == {<<s, e>> : s \in 0..MaxTime, e \in 0..MaxTime}

\* ground truth of the constructed cases on the single-level table
ScenarioSegs == {<<2, 4>>, <<0, 10>>, <<4, 6>>, <<3, 3>>}

\* (verb, noun) label pairs of the ground truth, all below the sentinels
LabelPairs == {<<0, 2>>, <<1, 1>>}

Video(segs, labs) ==
    [segments |-> segs,
     labels_v |-> [i \in 1..Len(labs) |-> labs[i][1]],
     labels_n |-> [i \in 1..Len(labs) |-> labs[i][2]]]

EmptyVideo == Video(<<>>, <<>>)

\* videos with at most two segments drawn from S; two segments carry
\* different label pairs
VideosOver(S) ==
    {EmptyVideo}
    \cup {Video(<<g>>, <<l>>) : g \in S, l \in LabelPairs}
    \cup {Video(<<g[1], g[2]>>, <<l[1], l[2]>>) :
             g \in S \X S, l \in {m \in LabelPairs \X LabelPairs : m[1] # m[2]}}

SmallVideos ==
    {EmptyVideo, Video(<<<<2, 4>>>>, <<<<1, 1>>>>),
     Video(<<<<1, 3>>, <<0, 4>>>>, <<<<0, 2>>, <<1, 1>>>>)}

\* a batch: one video, or two videos of a small set
BatchesOver(S) ==
    {<<v>> : v \in VideosOver(S)}
    \cup {<<v, w>> : v \in SmallVideos, w \in SmallVideos}

---------------------------------------------------------------------------
(* Target assigner: PtTransformer.label_points_single_video                *)

\* reg_targets before selection: (left, right) of point p to segment g
RegLeft(p, g) == p.t - g[1]

RegRight(p, g) == g[2] - p.t

\* inside_gt_seg_mask with the largest of the two distances tested (max for min)
InsideGtSegMaskAnySide(mode, p, g) ==
    IF mode = "radius"
    THEN LET center_pts_x2 == g[1] + g[2]
             t_mins_x2 == center_pts_x2 - p.stride * center_sample_radius_x2
             t_maxs_x2 == center_pts_x2 + p.stride * center_sample_radius_x2
             cb_dist_left_x2 == 2 * p.t - Max(t_mins_x2, 2 * g[1])
             cb_dist_right_x2 == Min(t_maxs_x2, 2 * g[2]) - 2 * p.t
         IN  Max(cb_dist_left_x2, cb_dist_right_x2) > 0
    ELSE Max(p.t - g[1], g[2] - p.t) > 0

\* inside_gt_seg_mask with a closed test (>= 0 for > 0)
InsideGtSegMaskClosed(mode, p, g) ==
    IF mode = "radius"
    THEN LET center_pts_x2 == g[1] + g[2]
             t_mins_x2 == center_pts_x2 - p.stride * center_sample_radius_x2
             t_maxs_x2 == center_pts_x2 + p.stride * center_sample_radius_x2
             cb_dist_left_x2 == 2 * p.t - Max(t_mins_x2, 2 * g[1])
             cb_dist_right_x2 == Min(t_maxs_x2, 2 * g[2]) - 2 * p.t
         IN  Min(cb_dist_left_x2, cb_dist_right_x2) >= 0
    ELSE Min(p.t - g[1], g[2] - p.t) >= 0

\* inside_gt_seg_mask.  In 'radius' mode the centre and the radius have a
\* half-unit grain, so both sides of the comparison are doubled.
InsideGtSegMask(mode, p, g) ==
    IF mode = "radius"
    THEN LET center_pts_x2 == g[1] + g[2]
             t_mins_x2 == center_pts_x2 - p.stride * center_sample_radius_x2
             t_maxs_x2 == center_pts_x2 + p.stride * center_sample_radius_x2
             cb_dist_left_x2 == 2 * p.t - Max(t_mins_x2, 2 * g[1])
             cb_dist_right_x2 == Min(t_maxs_x2, 2 * g[2]) - 2 * p.t
         IN  Min(cb_dist_left_x2, cb_dist_right_x2) > 0
    ELSE Min(RegLeft(p, g), RegRight(p, g)) > 0

\* inside_regress_range
InsideRegressRange(p, g) ==
    LET max_regress_distance == Max(RegLeft(p, g), RegRight(p, g))
    IN  /\ max_regress_distance >= p.reg_min
        /\ max_regress_distance <= p.reg_max

\* lens after the two masked_fill_ calls: one row (over the segments) for
\* point p; inf marks float('inf')
MaskedLens(mode, p, seg) ==
    [g \in 1..Len(seg) |->
        IF InsideGtSegMask(mode, p, seg[g]) /\ InsideRegressRange(p, seg[g])
        THEN [inf |-> FALSE, v |-> seg[g][2] - seg[g][1]]
        ELSE [inf |-> TRUE, v |-> 0]]

LenLt(a, b) == IF a.inf THEN FALSE ELSE IF b.inf THEN TRUE ELSE a.v < b.v

\* lens.min taking the first unmasked entry, whatever its length
MinLenIndexFirstUnmasked(row) ==
    IF \A i \in DOMAIN row : row[i].inf THEN 1
    ELSE CHOOSE i \in DOMAIN row : ~row[i].inf /\ \A j \in 1..(i - 1) : row[j].inf

\* lens.min returning the last minimal value of the row
MinLenIndexLast(row) ==
    LET IsMin(i) == \A j \in DOMAIN row : ~(IF row[j].inf THEN FALSE
                                            ELSE IF row[i].inf THEN TRUE
                                            ELSE row[j].v < row[i].v)
    IN  CHOOSE i \in DOMAIN row : IsMin(i) /\ \A j \in (i + 1)..Len(row) : ~IsMin(j)

\* lens.min(dim=1): the index of the first minimal value of the row
MinLenIndex(row) ==
    LET IsMin(i) == \A j \in DOMAIN row : ~LenLt(row[j], row[i])
    IN  CHOOSE i \in DOMAIN row : IsMin(i) /\ \A j \in 1..(i - 1) : ~IsMin(j)

\* the six fixed resolutions of the boundary / actionness labels
level_ratio == <<1, 2, 4, 8, 16, 32>>

num_levels == [l \in 1..6 |-> BaseAnchors * level_ratio[7 - l]]

\* ioa_with_anchors without the clamp of the intersection at 0
IoaWithAnchorsNoClamp(anchors_min, anchors_max, box_min, box_max) ==
    <<Min(anchors_max, box_max) - Max(anchors_min, box_min), anchors_max - anchors_min>>

\* ioa_with_anchors, for one anchor and one box: the quotient
\* inter_len / len_anchors as the pair <<inter_len, len_anchors>>
IoaWithAnchors(anchors_min, anchors_max, box_min, box_max) ==
    LET len_anchors == anchors_max - anchors_min
        int_xmin == Max(anchors_min, box_min)
        int_xmax == Min(anchors_max, box_max)
        inter_len == Max(int_xmax - int_xmin, 0)
    IN  <<inter_len, len_anchors>>

\* match_score_start / match_score_end of anchor x at ratio r: np.max of the
\* ioa with the boxes of the first k ground truths.  Lengths are scaled by
\* 20 * r, which makes gt / r and 0.1 * gt_lens integers:
\* gt_len_small / 2 = max(1, 0.1 * (e - s) / r) / 2 becomes max(10 r, e - s).
RECURSIVE MatchScoreBoundary(_, _, _, _, _)
MatchScoreBoundary(x, r, seg, which, k) ==
    LET half == Max(10 * r, seg[k][2] - seg[k][1])
        at == 20 * seg[k][which]
        ioa == IoaWithAnchors(20 * r * x, 20 * r * (x + 1), at - half, at + half)
    IN  IF k = 1 THEN ioa
        ELSE RMax(ioa, MatchScoreBoundary(x, r, seg, which, k - 1))

\* match_score_action where the first ground truth holding the anchor is
\* kept
RECURSIVE MatchScoreActionFirst(_, _, _, _)
MatchScoreActionFirst(ii, r, seg, k) ==
    IF k = 0 THEN [floor |-> TRUE, dist |-> Zero]
    ELSE LET before == MatchScoreActionFirst(ii, r, seg, k - 1)
         IN  IF before.floor /\ r * ii >= seg[k][1] /\ r * ii <= seg[k][2]
             THEN [floor |-> FALSE,
                   dist |-> <<Abs(2 * r * ii - (seg[k][1] + seg[k][2])), 2 * r>>]
             ELSE before

\* match_score_action of anchor ii at ratio r after the first k ground truths
\* of the inner loop: the floor 0.1, or exp(-d^2 / (2 sigma^2)) recorded by
\* its distance d = |ii - gt_center|; a later ground truth overwrites.
RECURSIVE MatchScoreAction(_, _, _, _)
MatchScoreAction(ii, r, seg, k) ==
    IF k = 0 THEN [floor |-> TRUE, dist |-> Zero]
    ELSE IF r * ii >= seg[k][1] /\ r * ii <= seg[k][2]
         THEN [floor |-> FALSE,
               dist |-> <<Abs(2 * r * ii - (seg[k][1] + seg[k][2])), 2 * r>>]
         ELSE MatchScoreAction(ii, r, seg, k - 1)

\* concatenation over the six levels of one label list
RECURSIVE ConcatLevels(_, _)
ConcatLevels(f, l) == IF l = 0 THEN <<>> ELSE ConcatLevels(f, l - 1) \o f[l]

BoundaryLabels(seg, which) ==
    ConcatLevels([l \in 1..6 |->
        [i \in 1..num_levels[l] |->
            MatchScoreBoundary(i - 1, level_ratio[l], seg, which, Len(seg))]], 6)

ActionLabels(seg) ==
    ConcatLevels([l \in 1..6 |->
        [i \in 1..num_levels[l] |->
            MatchScoreAction(i - 1, level_ratio[l], seg, Len(seg))]], 6)

\* The return tuple of label_points_single_video: three tensors when the
\* video has no ground truth, six otherwise.
LabelPointsSingleVideo(mode, pts, seg, lv, ln) ==
    LET num_pts == Len(pts)
        num_gts == Len(seg)
    IN  IF num_gts = 0
        THEN << [p \in 1..num_pts |-> num_classes_verb],
                [p \in 1..num_pts |-> num_classes_noun],
                [p \in 1..num_pts |-> <<Zero, Zero>>] >>
        ELSE LET lens == [p \in 1..num_pts |-> MaskedLens(mode, pts[p], seg)]
                 inds == [p \in 1..num_pts |-> MinLenIndex(lens[p])]
                 bg(p) == lens[p][inds[p]].inf
             IN  << [p \in 1..num_pts |->
                        IF bg(p) THEN num_classes_verb ELSE lv[inds[p]]],
                    [p \in 1..num_pts |->
                        IF bg(p) THEN num_classes_noun ELSE ln[inds[p]]],
                    [p \in 1..num_pts |->
                        << Rat(RegLeft(pts[p], seg[inds[p]]), pts[p].stride),
                           Rat(RegRight(pts[p], seg[inds[p]]), pts[p].stride) >>],
                    BoundaryLabels(seg, 1),
                    BoundaryLabels(seg, 2),
                    ActionLabels(seg) >>

\* min_len_inds of the call above (kept for the record; 1 when no ground truth)
MinLenInds(mode, pts, seg) ==
    [p \in 1..Len(pts) |->
        IF Len(seg) = 0 THEN 1 ELSE MinLenIndex(MaskedLens(mode, pts[p], seg))]

\* indexing by an index tensor taken as a view of the indexed tensor
IndexTensorIsView == FALSE

\* lines 1131-1132: gt_label[min_len_inds] indexes by a tensor, which
\* allocates the result (the receivers of the other in-place operations,
\* lens at lines 1126-1127 and reg_targets at line 1142, are results of
\* repeat and of indexing by (range, tensor), allocated as well)
IndexTensorCopies == TRUE

\* the label tensor of one video after the masked_fill_ of lines 1135-1136:
\* the fill writes the sentinel C at the background points of cls_targets,
\* which reaches gt_label only if cls_targets shares its storage
LabelsAfterFill(mode, pts, seg, lab, C) ==
    IF IndexTensorCopies \/ Len(seg) = 0 THEN lab
    ELSE [k \in 1..Len(lab) |->
             IF \E p \in 1..Len(pts) :
                    /\ MinLenIndex(MaskedLens(mode, pts[p], seg)) = k
                    /\ MaskedLens(mode, pts[p], seg)[k].inf
             THEN C ELSE lab[k]]

NoTargets == [cls_v |-> <<>>, cls_n |-> <<>>, offset |-> <<>>,
              start |-> <<>>, end |-> <<>>, action |-> <<>>]

\* PtTransformer.label_points: the loop unpacks six values from every call,
\* which raises ValueError on a three-tuple.
RECURSIVE LabelPointsLoop(_, _, _, _, _, _)
LabelPointsLoop(mode, pts, segs, lvs, lns, b) ==
    IF b = 0 THEN <<>>
    ELSE Append(LabelPointsLoop(mode, pts, segs, lvs, lns, b - 1),
                LabelPointsSingleVideo(mode, pts, segs[b], lvs[b], lns[b]))

LabelPointsResult(mode, pts, segs, lvs, lns) ==
    LET B == Len(segs)
        ret == LabelPointsLoop(mode, pts, segs, lvs, lns, B)
    IN  IF \E b \in 1..B : Len(ret[b]) # 6
        THEN [raised |-> "ValueError", targets |-> NoTargets]
        ELSE [raised |-> "none",
              targets |-> [cls_v  |-> [b \in 1..B |-> ret[b][1]],
                           cls_n  |-> [b \in 1..B |-> ret[b][2]],
                           offset |-> [b \in 1..B |-> ret[b][3]],
                           start  |-> [b \in 1..B |-> ret[b][4]],
                           end    |-> [b \in 1..B |-> ret[b][5]],
                           action |-> [b \in 1..B |-> ret[b][6]]]]

---------------------------------------------------------------------------
(* The assigner on its own: a batch is drawn, label_points is called once. *)

InitAssign ==
    /\ NoHost
    /\ train_center_sample \in {"none", "radius"}
    /\ \E cfg \in {<<PointsTwoLevels, GtSegs>>, <<PointsOneLevel, ScenarioSegs>>} :
          /\ points = cfg[1]
          /\ \E batch \in BatchesOver(cfg[2]) :
                /\ gt_segments = [b \in 1..Len(batch) |-> batch[b].segments]
                /\ gt_labels_v = [b \in 1..Len(batch) |-> batch[b].labels_v]
                /\ gt_labels_n = [b \in 1..Len(batch) |-> batch[b].labels_n]
    /\ pc = "label_points"
    /\ raised = "none"
    /\ gt_targets = NoTargets
    /\ min_len_inds = <<>>
    /\ giou_args = <<>>
    /\ giou_ret = <<>>
    /\ raised_in = "none"
    /\ NoTrainStep
    /\ NoDecode

LabelPoints ==
    /\ UNCHANGED hostVars
    /\ pc = "label_points"
    /\ LET res == LabelPointsResult(train_center_sample, points,
                                    gt_segments, gt_labels_v, gt_labels_n)
       IN  /\ raised' = res.raised
           /\ gt_targets' = res.targets
           /\ raised_in' = IF res.raised = "none" THEN "none" ELSE "label_points"
           /\ pc' = IF res.raised = "none" THEN "labelled" ELSE "error"
    /\ min_len_inds' = [b \in 1..Len(gt_segments) |->
                           MinLenInds(train_center_sample, points, gt_segments[b])]
    /\ gt_labels_v' = [b \in 1..Len(gt_labels_v) |->
                          LabelsAfterFill(train_center_sample, points, gt_segments[b],
                                          gt_labels_v[b], num_classes_verb)]
    /\ gt_labels_n' = [b \in 1..Len(gt_labels_n) |->
                          LabelsAfterFill(train_center_sample, points, gt_segments[b],
                                          gt_labels_n[b], num_classes_noun)]
    /\ UNCHANGED <<train_center_sample, points, gt_segments>>
    /\ UNCHANGED giouVars
    /\ UNCHANGED trainVars
    /\ UNCHANGED decodeVars

NextAssign == LabelPoints

SpecAssign == InitAssign /\ [][NextAssign]_vars

---------------------------------------------------------------------------
(* Regression loss: ctr_giou_loss_1d (losses.py)                           *)

\* bound of the offsets the loss is tried on
MaxOffset == 3

\* 1 / eps, eps = 1e-8
eps_inv == 100000000

Eps == <<1, eps_inv>>

Half == <<1, 2>>

\* args.sigma1 and args.loss_weight_boundary_conf (defaults of train.py)
sigma1 == <<1, 2>>

loss_weight_boundary_conf == One

\* x.clamp(min=eps); x < 1 / eps_inv is decided without forming x * eps_inv
ClampMinEps(x) == IF x[1] <= (x[2] - 1) \div eps_inv THEN Eps ELSE x

\* the loss with the union taken as the sum of both extents
CtrGiouPointUnionSum(lp, rp, lg, rg) ==
    LET intsctk == RAdd(RMin(rp, rg), RMin(lp, lg))
        unionk == RAdd(RAdd(lp, rp), RAdd(lg, rg))
        iouk == RDiv(intsctk, ClampMinEps(unionk))
        len_c == RAdd(RMax(lp, lg), RMax(rp, rg))
        miouk == RSub(iouk, RDiv(RSub(len_c, unionk), ClampMinEps(len_c)))
    IN  [intsctk |-> intsctk, unionk |-> unionk, iouk |-> iouk, len_c |-> len_c,
         miouk |-> miouk, loss_offset |-> RSub(One, miouk)]

\* the loss with the enclosing box taken from the nearer left end
CtrGiouPointEnclosingMin(lp, rp, lg, rg) ==
    LET intsctk == RAdd(RMin(rp, rg), RMin(lp, lg))
        unionk == RSub(RAdd(RAdd(lp, rp), RAdd(lg, rg)), intsctk)
        iouk == RDiv(intsctk, ClampMinEps(unionk))
        len_c == RAdd(RMin(lp, lg), RMax(rp, rg))
        miouk == RSub(iouk, RDiv(RSub(len_c, unionk), ClampMinEps(len_c)))
    IN  [intsctk |-> intsctk, unionk |-> unionk, iouk |-> iouk, len_c |-> len_c,
         miouk |-> miouk, loss_offset |-> RSub(One, miouk)]

\* lines 83-103 for one point: predicted (lp, rp), target (lg, rg)
CtrGiouPoint(lp, rp, lg, rg) ==
    LET lkis == RMin(lp, lg)
        rkis == RMin(rp, rg)
        intsctk == RAdd(rkis, lkis)
        unionk == RSub(RAdd(RAdd(lp, rp), RAdd(lg, rg)), intsctk)
        iouk == RDiv(intsctk, ClampMinEps(unionk))
        lc == RMax(lp, lg)
        rc == RMax(rp, rg)
        len_c == RAdd(lc, rc)
        miouk == RSub(iouk, RDiv(RSub(len_c, unionk), ClampMinEps(len_c)))
    IN  [intsctk |-> intsctk, unionk |-> unionk, iouk |-> iouk, len_c |-> len_c,
         miouk |-> miouk, loss_offset |-> RSub(One, miouk)]

\* the terms of point n of the call
PointAt(a, n) ==
    CtrGiouPoint(a.input_offsets[n][1], a.input_offsets[n][2],
                 a.target_offsets[n][1], a.target_offsets[n][2])

\* the mask with a closed comparison
IouMaskClosed(a, n) == IF RLe(Half, PointAt(a, n).miouk) THEN 1 ELSE 0

\* line 118
IouMask(a, n) == IF RLt(Half, PointAt(a, n).miouk) THEN 1 ELSE 0

\* loss_offset.sum() over the first n points
RECURSIVE SumLossOffset(_, _)
SumLossOffset(a, n) ==
    IF n = 0 THEN Zero ELSE RAdd(SumLossOffset(a, n - 1), PointAt(a, n).loss_offset)

\* ctr_giou_loss_1d with reduction = 'sum' (the only call).  input_conf holds
\* the pseudo-probabilities exp(-conf^2 / (2 sigma^2)) and input_actionness the
\* sigmoid of the actionness logits; the squared-error sums are kept as the
\* lists of their terms (target, prediction, mask).  input_actionness has
\* shape (N, 1) and target_action shape (N), so their difference broadcasts
\* to N x N: entry (i, j) is target_action[j] - input_actionness[i], masked by
\* iou_mask[j].
CtrGiouLoss1d(a) ==
    LET N == Len(a.input_offsets)
        neg(o) == \E i \in 1..N : o[i][1][1] < 0 \/ o[i][2][1] < 0
    IN  IF neg(a.input_offsets) \/ neg(a.target_offsets)
        THEN [raised |-> "AssertionError"]
        ELSE [raised |-> "none",
              points |-> [i \in 1..N |-> PointAt(a, i)],
              iou_mask |-> [i \in 1..N |-> IouMask(a, i)],
              loss_offset |-> SumLossOffset(a, N),
              loss |->
                  [w_offset |-> sigma1,
                   offset |-> SumLossOffset(a, N),
                   w_conf |-> loss_weight_boundary_conf,
                   conf |->
                       [w_s |-> Half,
                        s |-> [i \in 1..N |->
                                  [target |-> a.target_start[i],
                                   pred |-> a.input_conf[i][1],
                                   mask |-> IouMask(a, i)]],
                        w_e |-> Half,
                        e |-> [i \in 1..N |->
                                  [target |-> a.target_end[i],
                                   pred |-> a.input_conf[i][2],
                                   mask |-> IouMask(a, i)]]]],
              loss_action |->
                  [mean_of |->
                      [i \in 1..N |-> [j \in 1..N |->
                          [target |-> a.target_action[j],
                           pred |-> a.input_actionness[i][1],
                           mask |-> IouMask(a, j)]]]]]

\* The loss on its own: one positive point whose four offsets are drawn.
OffsetVals == {<<n, 1>> : n \in (-1)..MaxOffset}

InitGiou ==
    /\ NoHost
    /\ \E lp \in OffsetVals, rp \in OffsetVals, lg \in OffsetVals, rg \in OffsetVals :
          giou_args = [input_offsets |-> << <<lp, rp>> >>,
                       input_conf |-> << <<Half, One>> >>,
                       input_actionness |-> << <<Half>> >>,
                       target_offsets |-> << <<lg, rg>> >>,
                       target_start |-> <<Half>>,
                       target_end |-> <<Zero>>,
                       target_action |-> << [floor |-> TRUE, dist |-> Zero] >>]
    /\ giou_ret = <<>>
    /\ pc = "ctr_giou_loss_1d"
    /\ raised = "none"
    /\ train_center_sample = "none"
    /\ points = <<>>
    /\ gt_segments = <<>>
    /\ gt_labels_v = <<>>
    /\ gt_labels_n = <<>>
    /\ gt_targets = NoTargets
    /\ min_len_inds = <<>>
    /\ raised_in = "none"
    /\ NoTrainStep
    /\ NoDecode

CtrGiouLoss ==
    /\ UNCHANGED hostVars
    /\ pc = "ctr_giou_loss_1d"
    /\ \E ret \in {CtrGiouLoss1d(giou_args)} :
           /\ giou_ret' = ret
           /\ raised' = ret.raised
           /\ raised_in' = IF ret.raised = "none" THEN "none" ELSE "ctr_giou_loss_1d"
           /\ pc' = IF ret.raised = "none" THEN "returned" ELSE "error"
    /\ UNCHANGED giou_args
    /\ UNCHANGED assignVars
    /\ UNCHANGED trainVars
    /\ UNCHANGED decodeVars

NextGiou == CtrGiouLoss

SpecGiou == InitGiou /\ [][NextGiou]_vars

\* C8: identical predicted and target offsets (3, 3) give IoU = 1, an
\* enclosing length equal to the union, and a GIoU term loss_offset of
\* exactly 0.
C8_IdenticalOffsetsZeroLoss ==
    (/\ pc = "returned"
     /\ giou_args.input_offsets = << << <<3, 1>>, <<3, 1>> >> >>
     /\ giou_args.target_offsets = << << <<3, 1>>, <<3, 1>> >> >>) =>
        /\ giou_ret.points[1].iouk = One
        /\ giou_ret.points[1].len_c = giou_ret.points[1].unionk
        /\ giou_ret.loss_offset = Zero

C8_Witness ==
    /\ pc = "returned"
    /\ giou_args.input_offsets = << << <<3, 1>>, <<3, 1>> >> >>
    /\ giou_args.target_offsets = << << <<3, 1>>, <<3, 1>> >> >>
    /\ giou_ret.loss_offset = Zero

\* C26: for non-negative offsets the enclosing length equals the union
\* length, so the GIoU term miouk equals the IoU and the loss of a point lies
\* in [0, 1]; when all four offsets are 0 the loss of the point is exactly 1.
C26_GiouReducesToIouInUnitInterval ==
    pc = "returned" =>
        \A n \in 1..Len(giou_ret.points) : \A p \in {giou_ret.points[n]} :
            /\ p.len_c = p.unionk
            /\ p.miouk = p.iouk
            /\ RLe(Zero, p.loss_offset)
            /\ RLe(p.loss_offset, One)
            /\ (/\ giou_args.input_offsets[n] = <<Zero, Zero>>
                /\ giou_args.target_offsets[n] = <<Zero, Zero>>) =>
                   p.loss_offset = One

C26_Witness ==
    /\ pc = "returned"
    /\ giou_args.input_offsets = << <<Zero, Zero>> >>
    /\ giou_args.target_offsets = << <<Zero, Zero>> >>
    /\ giou_ret.points[1].len_c = Zero
    /\ giou_ret.loss_offset = One

\* intersection over union of the predicted segment [-lp, rp] and the target
\* segment [-lg, rg] around one point (offsets non-negative), 0 when both
\* segments are empty
SegmentIou(lp, rp, lg, rg) ==
    LET inter == RAdd(RMin(lp, lg), RMin(rp, rg))
        union == RSub(RAdd(RAdd(lp, rp), RAdd(lg, rg)), inter)
    IN  IF union = Zero THEN Zero ELSE RDiv(inter, union)

\* C17: a positive point contributes to the boundary-confidence loss if and
\* only if its regression IoU with its ground-truth target exceeds 0.5 (the
\* start and the end term carry the same mask), and the start and end sums
\* are combined with the weights 0.5 and 0.5.
C17_ConfidenceMaskedByIou ==
    pc = "returned" =>
        /\ giou_ret.loss.conf.w_s = <<1, 2>>
        /\ giou_ret.loss.conf.w_e = <<1, 2>>
        /\ \A i \in 1..Len(giou_args.input_offsets) :
              \A iou \in {SegmentIou(giou_args.input_offsets[i][1],
                                     giou_args.input_offsets[i][2],
                                     giou_args.target_offsets[i][1],
                                     giou_args.target_offsets[i][2])} :
                  /\ giou_ret.loss.conf.s[i].mask \in {0, 1}
                  /\ giou_ret.loss.conf.s[i].mask = 1 <=> RLt(<<1, 2>>, iou)
                  /\ giou_ret.loss.conf.e[i].mask = giou_ret.loss.conf.s[i].mask
                  /\ giou_ret.loss.conf.s[i].target = giou_args.target_start[i]
                  /\ giou_ret.loss.conf.e[i].target = giou_args.target_end[i]

\* a point whose IoU lies strictly between 0.5 and 1 and is counted
C17_Witness ==
    /\ pc = "returned"
    /\ RLt(<<1, 2>>, giou_ret.points[1].iouk)
    /\ RLt(giou_ret.points[1].iouk, One)
    /\ giou_ret.loss.conf.s[1].mask = 1
    /\ giou_ret.loss.conf.e[1].mask = 1

---------------------------------------------------------------------------
(* Training step: PtTransformer.forward in training mode, and losses       *)

\* the six pyramid levels of the point generator, num_levels[l] points at
\* stride level_ratio[l], with the regression ranges of the configuration
regression_range ==
    << <<0, 4>>, <<4, 8>>, <<8, 16>>, <<16, 32>>, <<32, 64>>, <<64, 10000>> >>

RECURSIVE PointsUpTo(_)
PointsUpTo(l) ==
    IF l = 0 THEN <<>>
    ELSE PointsUpTo(l - 1) \o LevelPoints(num_levels[l], level_ratio[l],
                                          regression_range[l][1],
                                          regression_range[l][2])

PointsSixLevels == PointsUpTo(6)

\* length of the padded input sequence
max_seq_len == num_levels[1]

\* a dataset item; is_none: segments, labels_v and labels_n are None
Item(v, none) ==
    [segments |-> v.segments, labels_v |-> v.labels_v, labels_n |-> v.labels_n,
     is_none |-> none]

TrainItems ==
    {Item(v, FALSE) : v \in SmallVideos \cup {Video(<< <<3, 3>> >>, << <<0, 2>> >>)}}
    \cup {Item(EmptyVideo, TRUE)}

TrainBatches ==
    {<<v>> : v \in TrainItems} \cup {<<v, w>> : v \in TrainItems, w \in TrainItems}

\* validity mask of a sequence padded beyond valid_len
ValidMask(pts, valid_len) == [p \in 1..Len(pts) |-> pts[p].t < valid_len]

\* (visual, audio) valid lengths the masks are drawn with
ValidLens == {<<max_seq_len, max_seq_len>>, <<3, 2>>}

\* predictions of the regression head, the same at every point
PredOffsets == {<<One, One>>, <<Zero, Zero>>}

\* pseudo-probabilities of the predicted boundary offsets and the sigmoid of
\* the predicted actionness, the same at every point
PredConf == <<Half, One>>

PredActionness == <<Half>>

InitLossNorms == {<<100, 1>>, <<2, 1>>}

loss_normalizer_momentum == <<9, 10>>

train_label_smoothing == Zero

\* args of train.py
verb_cls_weight == One

noun_cls_weight == <<3, 2>>

loss_a_weight == One

loss_act_weight == <<3, 2>>

\* the fixed divisors of the classification losses
cls_div_v == 250

cls_div_n == 500

\* the normalizer left as it was
EmaUpdateStale(normalizer, num_pos) == normalizer

\* the update with num_pos itself as the new sample
EmaUpdateUnclamped(normalizer, num_pos) ==
    RAdd(RMul(loss_normalizer_momentum, normalizer),
         RMul(RSub(One, loss_normalizer_momentum), <<num_pos, 1>>))

\* lines 1247-1249
EmaUpdate(normalizer, num_pos) ==
    RAdd(RMul(loss_normalizer_momentum, normalizer),
         RMul(RSub(One, loss_normalizer_momentum), <<Max(num_pos, 1), 1>>))

\* line 1223
PosMask(targets, valid_mask, b, p) ==
    /\ targets.cls_n[b][p] >= 0
    /\ targets.cls_n[b][p] # num_classes_noun
    /\ targets.cls_v[b][p] >= 0
    /\ targets.cls_v[b][p] # num_classes_verb
    /\ valid_mask[b][p]

\* the (b, p) indices of a (B, N) tensor in row-major order
AllPairs(B, N) ==
    [k \in 1..(B * N) |-> <<((k - 1) \div N) + 1, ((k - 1) % N) + 1>>]

\* tensor[mask]: the indices selected by a boolean (B, N) mask
Selected(mask, B, N) ==
    LET sel(bp) == mask[bp[1]][bp[2]]
    IN  SelectSeq(AllPairs(B, N), sel)

\* the one-hot rows of width C + 1, the background column kept
OneHotTargetFull(c, C) ==
    [k \in 1..(C + 1) |-> IF k - 1 = c THEN One ELSE Zero]

\* F.one_hot(c, C + 1)[:, :-1] followed by label smoothing
OneHotTarget(c, C) ==
    [k \in 1..C |->
        RAdd(RMul(IF k - 1 = c THEN One ELSE Zero, RSub(One, train_label_smoothing)),
             RDiv(train_label_smoothing, <<C + 1, 1>>))]

\* the focal loss of one taxonomy: the targets it is summed over, its fixed
\* divisor and its weight
ClsLoss(cls, valid, C, div, weight) ==
    [weight |-> weight, div |-> div,
     focal_sum_over |->
         [i \in 1..Len(valid) |-> OneHotTarget(cls[valid[i][1]][valid[i][2]], C)]]

\* the tensors gathered at the positive points for ctr_giou_loss_1d
GiouArgs(pos, out_offsets, targets) ==
    [input_offsets |-> [i \in 1..Len(pos) |-> out_offsets[pos[i][1]][pos[i][2]]],
     input_conf |-> [i \in 1..Len(pos) |-> PredConf],
     input_actionness |-> [i \in 1..Len(pos) |-> PredActionness],
     target_offsets |-> [i \in 1..Len(pos) |-> targets.offset[pos[i][1]][pos[i][2]]],
     target_start |-> [i \in 1..Len(pos) |-> targets.start[pos[i][1]][pos[i][2]]],
     target_end |-> [i \in 1..Len(pos) |-> targets.end[pos[i][1]][pos[i][2]]],
     target_action |-> [i \in 1..Len(pos) |-> targets.action[pos[i][1]][pos[i][2]]]]

\* what a losses() call leaves behind when it raises before line 1247
LossesRaised(exc, normalizer) ==
    [raised |-> exc, raised_in |-> "losses", loss_normalizer |-> normalizer,
     ret |-> NoLosses, giou_args |-> <<>>, giou_ret |-> <<>>]

\* lines 1300-1318, given the positive points, the classification losses,
\* the updated normalizer and the tensors for the regression loss
LossesVisualTail(num_pos, cls, new_normalizer, args, giou) ==
    IF num_pos = 0
    THEN \* line 1303 binds reg_loss only; line 1318 reads actionness_loss
         [LossesRaised("UnboundLocalError", new_normalizer) EXCEPT
             !.raised_in = "losses"]
    ELSE IF giou.raised # "none"
    THEN [raised |-> giou.raised, raised_in |-> "ctr_giou_loss_1d",
          loss_normalizer |-> new_normalizer, ret |-> NoLosses,
          giou_args |-> args, giou_ret |-> giou]
    ELSE [raised |-> "none", raised_in |-> "none",
          loss_normalizer |-> new_normalizer,
          ret |-> [cls_loss_v |-> cls.v, cls_loss_n |-> cls.n,
                   reg_loss |-> [num |-> giou.loss, div |-> new_normalizer],
                   act_loss |-> giou.loss_action],
          giou_args |-> args, giou_ret |-> giou]

\* PtTransformer.losses.  The one-element sets bind the gathered indices and
\* tensors, which the rest of the call reads many times.
Losses(is_audio, fpn_masks, out_offsets, targets, normalizer) ==
    LET B == Len(targets.cls_v)
        N == Len(fpn_masks[1])
        pos_mask == [b \in 1..B |-> [p \in 1..N |-> PosMask(targets, fpn_masks, b, p)]]
    IN  IF \E b \in 1..B : Len(targets.start[b]) # N
        THEN \* line 1241: the mask does not have the shape of the stacked labels
             LossesRaised("IndexError", normalizer)
        ELSE CHOOSE r \in
                 {IF is_audio
                  THEN [raised |-> "none", raised_in |-> "none",
                        loss_normalizer |-> EmaUpdate(normalizer, Len(pos)),
                        ret |-> [cls_loss_v |-> cls.v, cls_loss_n |-> cls.n],
                        giou_args |-> <<>>, giou_ret |-> <<>>]
                  ELSE CHOOSE t \in
                           {LossesVisualTail(Len(pos), cls,
                                             EmaUpdate(normalizer, Len(pos)), args,
                                             IF Len(pos) = 0 THEN <<>>
                                             ELSE CtrGiouLoss1d(args)) :
                                args \in {GiouArgs(pos, out_offsets, targets)}} : TRUE :
                     pos \in {Selected(pos_mask, B, N)},
                     cls \in {[v |-> ClsLoss(targets.cls_v, valid, num_classes_verb,
                                             cls_div_v, verb_cls_weight),
                               n |-> ClsLoss(targets.cls_n, valid, num_classes_noun,
                                             cls_div_n, noun_cls_weight)] :
                                 valid \in {Selected(fpn_masks, B, N)}}} : TRUE

InitTrain ==
    /\ NoHost
    /\ train_center_sample \in {"none", "radius"}
    /\ points \in {PointsSixLevels, PointsTwoLevels}
    /\ video_list \in TrainBatches
    /\ \E lens \in ValidLens :
          /\ fpn_masks_visual = [b \in 1..Len(video_list) |-> ValidMask(points, lens[1])]
          /\ fpn_masks_audio = [b \in 1..Len(video_list) |-> ValidMask(points, lens[2])]
    /\ \E o \in PredOffsets :
          out_offsets_visual = [b \in 1..Len(video_list) |-> [p \in 1..Len(points) |-> o]]
    /\ init_loss_norm \in InitLossNorms
    /\ loss_normalizer = init_loss_norm
    /\ losses_visaul = NoLosses
    /\ losses_audio = NoLosses
    /\ losses = NoLosses
    /\ gt_segments = <<>>
    /\ gt_labels_v = <<>>
    /\ gt_labels_n = <<>>
    /\ gt_targets = NoTargets
    /\ min_len_inds = <<>>
    /\ giou_args = <<>>
    /\ giou_ret = <<>>
    /\ pc = "forward"
    /\ raised = "none"
    /\ raised_in = "none"
    /\ NoDecode

\* forward with the assertions of lines 893-895 as its only check of the
\* ground truth: a missing ground truth of a later video is taken as empty
ForwardAssertsOnly ==
    /\ UNCHANGED hostVars
    /\ pc = "forward"
    /\ LET exc == IF Len(video_list) < 2 THEN "IndexError"
                  ELSE IF video_list[1].is_none THEN "AssertionError"
                  ELSE "none"
       IN  /\ raised' = exc
           /\ raised_in' = IF exc = "none" THEN "none" ELSE "forward"
           /\ pc' = IF exc = "none" THEN "label_points" ELSE "error"
           /\ IF exc = "none"
              THEN /\ gt_segments' = [b \in 1..Len(video_list) |-> video_list[b].segments]
                   /\ gt_labels_v' = [b \in 1..Len(video_list) |-> video_list[b].labels_v]
                   /\ gt_labels_n' = [b \in 1..Len(video_list) |-> video_list[b].labels_n]
              ELSE UNCHANGED <<gt_segments, gt_labels_v, gt_labels_n>>
    /\ UNCHANGED <<train_center_sample, points, gt_targets, min_len_inds>>
    /\ UNCHANGED giouVars
    /\ UNCHANGED trainVars
    /\ UNCHANGED decodeVars

\* forward, lines 822-898: vid_idx reads video_list[0] and video_list[1]; the
\* three assertions read video_list[0] only; .to() is called on every item
Forward ==
    /\ UNCHANGED hostVars
    /\ pc = "forward"
    /\ LET exc == IF Len(video_list) < 2 THEN "IndexError"
                  ELSE IF video_list[1].is_none THEN "AssertionError"
                  ELSE IF \E b \in 1..Len(video_list) : video_list[b].is_none
                       THEN "AttributeError"
                  ELSE "none"
       IN  /\ raised' = exc
           /\ raised_in' = IF exc = "none" THEN "none" ELSE "forward"
           /\ pc' = IF exc = "none" THEN "label_points" ELSE "error"
           /\ IF exc = "none"
              THEN /\ gt_segments' = [b \in 1..Len(video_list) |-> video_list[b].segments]
                   /\ gt_labels_v' = [b \in 1..Len(video_list) |-> video_list[b].labels_v]
                   /\ gt_labels_n' = [b \in 1..Len(video_list) |-> video_list[b].labels_n]
              ELSE UNCHANGED <<gt_segments, gt_labels_v, gt_labels_n>>
    /\ UNCHANGED <<train_center_sample, points, gt_targets, min_len_inds>>
    /\ UNCHANGED giouVars
    /\ UNCHANGED trainVars
    /\ UNCHANGED decodeVars

\* forward, lines 904-910
LossesVisual ==
    /\ UNCHANGED hostVars
    /\ pc = "labelled"
    /\ video_list # <<>>
    /\ \E r \in {Losses(FALSE, fpn_masks_visual, out_offsets_visual, gt_targets,
                        loss_normalizer)} :
           /\ raised' = r.raised
           /\ raised_in' = r.raised_in
           /\ loss_normalizer' = r.loss_normalizer
           /\ losses_visaul' = r.ret
           /\ giou_args' = r.giou_args
           /\ giou_ret' = r.giou_ret
           /\ pc' = IF r.raised = "none" THEN "losses_audio" ELSE "error"
    /\ UNCHANGED assignVars
    /\ UNCHANGED trainInputs
    /\ UNCHANGED <<losses_audio, losses>>
    /\ UNCHANGED decodeVars

\* forward, lines 912-918
LossesAudio ==
    /\ UNCHANGED hostVars
    /\ pc = "losses_audio"
    /\ \E r \in {Losses(TRUE, fpn_masks_audio, <<>>, gt_targets, loss_normalizer)} :
           /\ raised' = r.raised
           /\ raised_in' = r.raised_in
           /\ loss_normalizer' = r.loss_normalizer
           /\ losses_audio' = r.ret
           /\ pc' = IF r.raised = "none" THEN "combine" ELSE "error"
    /\ UNCHANGED assignVars
    /\ UNCHANGED giouVars
    /\ UNCHANGED trainInputs
    /\ UNCHANGED <<losses_visaul, losses>>
    /\ UNCHANGED decodeVars

\* the combination with the audio classification losses left out
CombineVisualOnly ==
    /\ UNCHANGED hostVars
    /\ pc = "combine"
    /\ losses' =
          [cls_v |-> losses_visaul.cls_loss_v,
           cls_n |-> losses_visaul.cls_loss_n,
           reg_visual |-> losses_visaul.reg_loss,
           action |-> losses_visaul.act_loss,
           final_loss |-> [sum_of |-> <<"cls_v", "cls_n", "reg_visual">>,
                           act_weight |-> loss_act_weight, plus |-> "action"]]
    /\ pc' = "done"
    /\ UNCHANGED <<raised, raised_in>>
    /\ UNCHANGED assignVars
    /\ UNCHANGED giouVars
    /\ UNCHANGED trainInputs
    /\ UNCHANGED <<loss_normalizer, losses_visaul, losses_audio>>
    /\ UNCHANGED decodeVars

\* forward, lines 920-928
Combine ==
    /\ UNCHANGED hostVars
    /\ pc = "combine"
    /\ losses' =
          [cls_v |-> [visual |-> losses_visaul.cls_loss_v, a_weight |-> loss_a_weight,
                      audio |-> losses_audio.cls_loss_v],
           cls_n |-> [visual |-> losses_visaul.cls_loss_n, a_weight |-> loss_a_weight,
                      audio |-> losses_audio.cls_loss_n],
           reg_visual |-> losses_visaul.reg_loss,
           action |-> losses_visaul.act_loss,
           final_loss |-> [sum_of |-> <<"cls_v", "cls_n", "reg_visual">>,
                           act_weight |-> loss_act_weight, plus |-> "action"]]
    /\ pc' = "done"
    /\ UNCHANGED <<raised, raised_in>>
    /\ UNCHANGED assignVars
    /\ UNCHANGED giouVars
    /\ UNCHANGED trainInputs
    /\ UNCHANGED <<loss_normalizer, losses_visaul, losses_audio>>
    /\ UNCHANGED decodeVars

NextTrain == Forward \/ LabelPoints \/ LossesVisual \/ LossesAudio \/ Combine

SpecTrain == InitTrain /\ [][NextTrain]_vars

\* number of positive points of a losses() call with the given masks
NumPos(fpn_masks) ==
    Cardinality({bp \in (1..Len(fpn_masks)) \X (1..Len(points)) :
                    PosMask(gt_targets, fpn_masks, bp[1], bp[2])})

\* the visual losses() call has returned or raised
VisualCallOver ==
    \/ pc \in {"losses_audio", "combine", "done"}
    \/ pc = "error" /\ raised_in \in {"losses", "ctr_giou_loss_1d"}
                    /\ losses_visaul = NoLosses /\ gt_targets # NoTargets

\* the label tensors have the length of the point table
ShapesAgree == \A b \in 1..Len(gt_targets.start) : Len(gt_targets.start[b]) = Len(points)

\* C6: when the batch has zero positive points, the visual call of losses()
\* returns normally with a dict whose regression and actionness components
\* are both zero.
C6_ZeroPositivesZeroLosses ==
    (VisualCallOver /\ ShapesAgree /\ NumPos(fpn_masks_visual) = 0) =>
        /\ raised = "none"
        /\ DOMAIN losses_visaul = {"cls_loss_v", "cls_loss_n", "reg_loss", "act_loss"}
        /\ losses_visaul.reg_loss = Zero
        /\ losses_visaul.act_loss = Zero

\* C7: a training step that completes has updated the loss normalizer
\* exactly once, to 0.9 * normalizer + 0.1 * max(num_pos, 1).
C7_NormalizerUpdatedOncePerStep ==
    pc = "done" =>
        loss_normalizer = EmaUpdate(init_loss_norm, NumPos(fpn_masks_visual))

\* the valid points of a losses() call in the order tensor[valid_mask] lists
\* them
ValidPoints(fpn_masks) == Selected(fpn_masks, Len(fpn_masks), Len(points))

\* row is the one-hot row of width C of the target c: all zeros for the
\* sentinel C, one 1 at the class index otherwise
IsOneHotRow(row, c, C) ==
    /\ Len(row) = C
    /\ c \in 0..C
    /\ c = C => \A k \in 1..C : row[k] = Zero
    /\ c < C => /\ row[c + 1] = One
                /\ \A k \in 1..C : k # c + 1 => row[k] = Zero

\* the classification targets of a returned loss dict are the one-hot rows
\* of the valid points
TargetsAreOneHot(ret, fpn_masks) ==
    \A valid \in {ValidPoints(fpn_masks)} :
        /\ Len(ret.cls_loss_v.focal_sum_over) = Len(valid)
        /\ Len(ret.cls_loss_n.focal_sum_over) = Len(valid)
        /\ \A i \in 1..Len(valid) :
              /\ IsOneHotRow(ret.cls_loss_v.focal_sum_over[i],
                             gt_targets.cls_v[valid[i][1]][valid[i][2]],
                             num_classes_verb)
              /\ IsOneHotRow(ret.cls_loss_n.focal_sum_over[i],
                             gt_targets.cls_n[valid[i][1]][valid[i][2]],
                             num_classes_noun)

\* C14: the background sentinel C never yields a positive class: the one-hot
\* target row of every valid point has width C, is all zeros when the
\* point's target is the sentinel C, and has exactly one 1, at the class
\* index, when the target is in [0, C); for verb and noun, in the visual and
\* in the audio call of losses() (label smoothing is 0, so the rows the focal
\* loss receives are the one-hot rows).
C14_SentinelNeverPositive ==
    /\ losses_visaul # NoLosses => TargetsAreOneHot(losses_visaul, fpn_masks_visual)
    /\ losses_audio # NoLosses => TargetsAreOneHot(losses_audio, fpn_masks_audio)

\* both calls have returned for a batch with a valid foreground point and a
\* valid background point, and the audio mask leaves points out
C14_Witness ==
    /\ pc = "done"
    /\ \E b \in 1..Len(video_list) : \E p, q, r \in 1..Len(points) :
          /\ fpn_masks_audio[b][p] /\ gt_targets.cls_v[b][p] < num_classes_verb
                                   /\ gt_targets.cls_n[b][p] < num_classes_noun
          /\ fpn_masks_audio[b][q] /\ gt_targets.cls_v[b][q] = num_classes_verb
                                   /\ gt_targets.cls_n[b][q] = num_classes_noun
          /\ ~fpn_masks_audio[b][r]

\* C15: losses(is_audio=True) returns exactly the verb and noun
\* classification losses, and the final training loss is
\* (cls_v_vis + a * cls_v_aud) + (cls_n_vis + a * cls_n_aud) + reg_vis
\* + loss_act_weight * act_vis, with a = loss_a_weight: the dict of the audio
\* call enters it through the two classification losses only.
C15_AudioSupervisesClassificationOnly ==
    /\ losses_audio # NoLosses => DOMAIN losses_audio = {"cls_loss_v", "cls_loss_n"}
    /\ pc = "done" =>
          /\ DOMAIN losses = {"cls_v", "cls_n", "reg_visual", "action", "final_loss"}
          /\ losses.cls_v = [visual |-> losses_visaul.cls_loss_v,
                             a_weight |-> loss_a_weight,
                             audio |-> losses_audio.cls_loss_v]
          /\ losses.cls_n = [visual |-> losses_visaul.cls_loss_n,
                             a_weight |-> loss_a_weight,
                             audio |-> losses_audio.cls_loss_n]
          /\ losses.reg_visual = losses_visaul.reg_loss
          /\ losses.action = losses_visaul.act_loss
          /\ losses.final_loss.sum_of = <<"cls_v", "cls_n", "reg_visual">>
          /\ losses.final_loss.plus = "action"
          /\ losses.final_loss.act_weight = loss_act_weight

\* a completed step whose audio classification loss differs from the visual
\* one (the two masks differ)
C15_Witness ==
    /\ pc = "done"
    /\ raised = "none"
    /\ losses.cls_v.audio # losses.cls_v.visual
    /\ losses.reg_visual.num # <<>>

\* C16: the classification losses are divided by 250 (verb) and 500 (noun)
\* and do not depend on the normalizer: the call repeated on the same inputs
\* with any other normalizer returns the same classification losses; the
\* regression loss is divided by 0.9 * normalizer + 0.1 * max(num_pos, 1),
\* the value the same call leaves in loss_normalizer.
C16_FixedClsDivisorsEmaRegDivisor ==
    /\ pc = "losses_audio" =>
          /\ losses_visaul.cls_loss_v.div = 250
          /\ losses_visaul.cls_loss_n.div = 500
          /\ losses_visaul.reg_loss.div = loss_normalizer
          /\ losses_visaul.reg_loss.div =
                RAdd(RMul(<<9, 10>>, init_loss_norm),
                     RMul(<<1, 10>>, <<Max(NumPos(fpn_masks_visual), 1), 1>>))
          /\ \A n \in InitLossNorms :
                \A r \in {Losses(FALSE, fpn_masks_visual, out_offsets_visual,
                                 gt_targets, n)} :
                    /\ r.ret.cls_loss_v = losses_visaul.cls_loss_v
                    /\ r.ret.cls_loss_n = losses_visaul.cls_loss_n
                    /\ r.ret.reg_loss.num = losses_visaul.reg_loss.num
                    /\ r.ret.reg_loss.div =
                          RAdd(RMul(<<9, 10>>, n),
                               RMul(<<1, 10>>, <<Max(NumPos(fpn_masks_visual), 1), 1>>))
    /\ pc = "combine" =>
          /\ losses_audio.cls_loss_v.div = 250
          /\ losses_audio.cls_loss_n.div = 500
          /\ \A n \in InitLossNorms :
                Losses(TRUE, fpn_masks_audio, <<>>, gt_targets, n).ret = losses_audio

\* the visual call has returned with several positive points, starting from
\* the normalizer 100: the regression divisor is neither 100 nor a fixed
\* constant
C16_Witness ==
    /\ pc = "losses_audio"
    /\ init_loss_norm = <<100, 1>>
    /\ NumPos(fpn_masks_visual) > 1
    /\ losses_visaul.reg_loss.div # init_loss_norm
    /\ losses_visaul.reg_loss.div \notin {<<250, 1>>, <<500, 1>>}

\* C20: the start_score, end_score and actionness label vectors returned by
\* the assigner have exactly one entry for every point of the concatenated
\* point table (length N), for any point table the model is configured
\* with, so that losses() can index them with the positive-point mask.
C20_AuxLabelsPerPoint ==
    /\ gt_targets # NoTargets =>
          \A b \in 1..Len(gt_targets.start) :
              /\ Len(gt_targets.offset[b]) = Len(points)
              /\ Len(gt_targets.start[b]) = Len(points)
              /\ Len(gt_targets.end[b]) = Len(points)
              /\ Len(gt_targets.action[b]) = Len(points)
    /\ ~(raised = "IndexError" /\ raised_in = "losses")

\* C21: in training mode, if the ground-truth segments or labels of any
\* video of the batch are None, forward() fails before label_points begins
\* and before any loss is computed or the loss normalizer is modified.
C21_MissingLabelsFatalBeforeAssignment ==
    (pc # "forward" /\ \E b \in 1..Len(video_list) : video_list[b].is_none) =>
        /\ pc = "error"
        /\ raised # "none"
        /\ raised_in = "forward"
        /\ gt_targets = NoTargets
        /\ min_len_inds = <<>>
        /\ loss_normalizer = init_loss_norm
        /\ losses_visaul = NoLosses
        /\ losses_audio = NoLosses
        /\ losses = NoLosses

\* the first video has its ground truth and a later one has none: the
\* assertions pass and the call still fails
C21_Witness ==
    /\ pc = "error"
    /\ raised_in = "forward"
    /\ Len(video_list) = 2
    /\ ~video_list[1].is_none
    /\ video_list[2].is_none

---------------------------------------------------------------------------
(* Decoder: inference, inference_single_video and postprocessing           *)

\* bound of the candidates kept per level, test_cfg['pre_nms_topk']
pre_nms_topk == 2

\* the widths of line 1436 at the scale of the model's taxonomies: every
\* verb class, all noun classes but one
verb_topk == num_classes_verb

noun_topk == num_classes_noun - 1

\* pyramid of the decoder: two points at stride 1, one point at stride 2
DecodeLevels == <<LevelPoints(2, 1, 0, 2), LevelPoints(1, 2, 2, 10000)>>

DecodePoints == DecodeLevels[1] \o DecodeLevels[2]

\* index in the concatenated table of the first point of level l, minus one
RECURSIVE LevelBase(_)
LevelBase(l) == IF l = 1 THEN 0 ELSE LevelBase(l - 1) + Len(DecodeLevels[l - 1])

\* What the network hands the decoder for one point: the validity mask, the
\* fused class probabilities cls_i_verb.sigmoid() and cls_i_noun.sigmoid()
\* (pairwise different within a row) and the offsets of the regression head,
\* non-negative by its ReLU.
PointPreds ==
    {[mask |-> TRUE, cls_verb |-> << <<1, 2>>, <<9, 10>> >>,
      cls_noun |-> << <<3, 10>>, <<1, 10>>, <<4, 5>>, <<1, 5>> >>, offsets |-> <<One, One>>],
     [mask |-> TRUE, cls_verb |-> << <<3, 5>>, <<1, 5>> >>,
      cls_noun |-> << <<4, 5>>, <<3, 10>>, <<1, 10>>, <<1, 2>> >>, offsets |-> <<Zero, Half>>],
     [mask |-> TRUE, cls_verb |-> << <<1, 2>>, <<9, 10>> >>,
      cls_noun |-> << <<3, 10>>, <<1, 10>>, <<4, 5>>, <<1, 5>> >>, offsets |-> <<Zero, Zero>>],
     [mask |-> FALSE, cls_verb |-> << <<1, 2>>, <<9, 10>> >>,
      cls_noun |-> << <<3, 10>>, <<1, 10>>, <<4, 5>>, <<1, 5>> >>, offsets |-> <<One, One>>]}

\* the meta information of a dataset item that inference passes through
DecodeVideos ==
    {[video_id |-> "v", fps |-> <<4, 1>>, duration |-> d, feat_stride |-> <<2, 1>>,
      feat_num_frames |-> <<4, 1>>] : d \in {<<1, 1>>, <<100, 1>>}}

TestCfgs ==
    [pre_nms_thresh : {Half, Zero, <<-1, 2>>}, pre_nms_topk : {pre_nms_topk},
     duration_thresh : {Zero, <<1, 20>>}, nms_method : {"none", "hard"}]

\* torch.sort(row, descending=True): (score, class index) by falling score
RECURSIVE SortDescFrom(_, _)
SortDescFrom(row, S) ==
    IF S = {} THEN <<>>
    ELSE LET j == CHOOSE j \in S : \A m \in S : RLe(row[m], row[j])
         IN  <<[score |-> row[j], label |-> j - 1]>> \o SortDescFrom(row, S \ {j})

SortDesc(row) == SortDescFrom(row, DOMAIN row)

\* the first k sorted entries, not multiplied by the mask
TopkRowUnmasked(row, k, mask) ==
    [i \in 1..Min(k, Len(row)) |-> SortDesc(row)[i]]

\* lines 1437-1441: the first k sorted entries, scores and labels both
\* multiplied by the mask
TopkRow(row, k, mask) ==
    [i \in 1..Min(k, Len(row)) |->
        [score |-> IF mask THEN SortDesc(row)[i].score ELSE Zero,
         label |-> IF mask THEN SortDesc(row)[i].label ELSE 0]]

VerbTopk(l, pt) ==
    TopkRow(preds[LevelBase(l) + pt + 1].cls_verb, verb_topk,
            preds[LevelBase(l) + pt + 1].mask)

NounTopk(l, pt) ==
    TopkRow(preds[LevelBase(l) + pt + 1].cls_noun, noun_topk,
            preds[LevelBase(l) + pt + 1].mask)

\* line 1445: mul_cls_score[pt][n][v], 0-based
MulClsScore(l, pt, n, v) ==
    RMul(NounTopk(l, pt)[n + 1].score, VerbTopk(l, pt)[v + 1].score)

\* line 1446: the (T, Kn, Kv) tensor flattened, as a function of the 0-based
\* flat index
PredProb(l) ==
    LET T == Len(DecodeLevels[l])
        Kn == Len(NounTopk(l, 0))
        Kv == Len(VerbTopk(l, 0))
    IN  [i \in 0..(T * Kn * Kv - 1) |->
            MulClsScore(l, i \div (Kn * Kv), (i % (Kn * Kv)) \div Kv, i % Kv)]

\* the threshold with a closed comparison
KeepIdxs1Closed(l) ==
    {i \in DOMAIN PredProb(l) :
        RLe(RMul(test_cfg.pre_nms_thresh, test_cfg.pre_nms_thresh), PredProb(l)[i])}

\* line 1451
KeepIdxs1(l) ==
    {i \in DOMAIN PredProb(l) :
        RLt(RMul(test_cfg.pre_nms_thresh, test_cfg.pre_nms_thresh), PredProb(l)[i])}

\* lines 1456-1459: every order the descending sort can leave the k best of
\* S in (the order of equal scores is not fixed by torch.sort)
RECURSIVE TopkOrders(_, _, _)
TopkOrders(score, S, k) ==
    IF k = 0 THEN {<<>>}
    ELSE UNION {{<<i>> \o rest : rest \in TopkOrders(score, S \ {i}, k - 1)} :
                   i \in {j \in S : \A m \in S : RLe(score[m], score[j])}}

\* the noun rank taken as the remainder by noun_topk
ClsNounIdxs1Mod(i) == (i % (verb_topk * noun_topk)) % noun_topk

\* lines 1466-1472
PtIdxs(i) == i \div (verb_topk * noun_topk)

DxLoc(i) == i % (verb_topk * noun_topk)

ClsNounIdxs1(i) == DxLoc(i) \div verb_topk

ClsVerbIdxs1(i) == DxLoc(i) % verb_topk

\* lines 1474-1485: the row of flat index i of level l; pt is the point of
\* the concatenated table the row is gathered from
Candidate(l, i) ==
    LET g == LevelBase(l) + PtIdxs(i) + 1
        pts == points[g]
        offsets == preds[g].offsets
        seg_left == RSub(<<pts.t, 1>>, RMul(offsets[1], <<pts.stride, 1>>))
        seg_right == RAdd(<<pts.t, 1>>, RMul(offsets[2], <<pts.stride, 1>>))
    IN  [segment |-> <<seg_left, seg_right>>,
         score |-> PredProb(l)[i],
         label_verb |-> VerbTopk(l, PtIdxs(i))[ClsVerbIdxs1(i) + 1].label,
         label_noun |-> NounTopk(l, PtIdxs(i))[ClsNounIdxs1(i) + 1].label,
         pt |-> g]

\* the duration filter with a closed comparison
KeepIdxs2Closed(row) ==
    RLe(test_cfg.duration_thresh, RSub(row.segment[2], row.segment[1]))

\* lines 1488-1489
KeepIdxs2(row) ==
    RLt(test_cfg.duration_thresh, RSub(row.segment[2], row.segment[1]))

\* the rows one level can append to the lists of inference_single_video
LevelOutcomes(l) ==
    {SelectSeq([k \in 1..Len(topk_idxs) |-> Candidate(l, topk_idxs[k])], KeepIdxs2) :
        topk_idxs \in TopkOrders(PredProb(l), KeepIdxs1(l),
                                 Min(test_cfg.pre_nms_topk, Cardinality(KeepIdxs1(l))))}

\* inference_single_video: the concatenations over the first l levels
RECURSIVE InferenceSingleVideo(_)
InferenceSingleVideo(l) ==
    IF l = 0 THEN {<<>>}
    ELSE {a \o b : a \in InferenceSingleVideo(l - 1), b \in LevelOutcomes(l)}

\* rows by falling score, equal scores in their given order
RECURSIVE SortRowsDesc(_, _)
SortRowsDesc(rows, K) ==
    IF K = {} THEN <<>>
    ELSE LET j == CHOOSE j \in K : \A m \in K :
                      \/ RLt(rows[m].score, rows[j].score)
                      \/ rows[m].score = rows[j].score /\ j <= m
         IN  <<rows[j]>> \o SortRowsDesc(rows, K \ {j})

\* batched_nms (libs.utils), by its contract: hard suppression returns a
\* pruned subset of the rows ranked by confidence
BatchedNms(rows) == {SortRowsDesc(rows, K) : K \in SUBSET (1..Len(rows))}

\* line 1549
Rescale(b, meta) ==
    RDiv(RAdd(RMul(b, meta.feat_stride), RMul(Half, meta.feat_num_frames)), meta.fps)

\* the clipping without its upper side
ClipLowerOnly(x, vlen) == IF RLe(x, Zero) THEN Zero ELSE x

\* lines 1551-1552, in this order
Clip(x, vlen) ==
    LET y == IF RLe(x, Zero) THEN Zero ELSE x
    IN  IF RLe(vlen, y) THEN vlen ELSE y

InitDecode ==
    /\ NoHost
    /\ points = DecodePoints
    /\ preds \in [1..Len(DecodePoints) -> PointPreds]
    /\ test_cfg \in TestCfgs
    /\ \E v \in DecodeVideos : video_list = <<v>>
    /\ results = <<>>
    /\ nms_results = <<>>
    /\ processed_results = <<>>
    /\ pc = "inference"
    /\ raised = "none"
    /\ raised_in = "none"
    /\ train_center_sample = "none"
    /\ gt_segments = <<>>
    /\ gt_labels_v = <<>>
    /\ gt_labels_n = <<>>
    /\ gt_targets = NoTargets
    /\ min_len_inds = <<>>
    /\ giou_args = <<>>
    /\ giou_ret = <<>>
    /\ fpn_masks_visual = <<>>
    /\ fpn_masks_audio = <<>>
    /\ out_offsets_visual = <<>>
    /\ init_loss_norm = <<1, 1>>
    /\ loss_normalizer = <<1, 1>>
    /\ losses_visaul = NoLosses
    /\ losses_audio = NoLosses
    /\ losses = NoLosses

\* inference, lines 1347-1380, for the one video of the batch
Inference ==
    /\ UNCHANGED hostVars
    /\ pc = "inference"
    /\ \E rows \in InferenceSingleVideo(Len(DecodeLevels)) : results' = rows
    /\ pc' = "postprocessing"
    /\ UNCHANGED <<raised, raised_in, test_cfg, preds, nms_results, processed_results>>
    /\ UNCHANGED assignVars
    /\ UNCHANGED giouVars
    /\ UNCHANGED trainVars

\* postprocessing, lines 1516-1563
Postprocessing ==
    /\ UNCHANGED hostVars
    /\ pc = "postprocessing"
    /\ \E kept \in IF test_cfg.nms_method = "none" THEN {results}
                   ELSE BatchedNms(results) :
          /\ nms_results' = kept
          /\ processed_results' =
                [i \in 1..Len(kept) |->
                    [kept[i] EXCEPT !.segment =
                        <<Clip(Rescale(kept[i].segment[1], video_list[1]),
                               video_list[1].duration),
                          Clip(Rescale(kept[i].segment[2], video_list[1]),
                               video_list[1].duration)>>]]
    /\ pc' = "done"
    /\ UNCHANGED <<raised, raised_in, test_cfg, preds, results>>
    /\ UNCHANGED assignVars
    /\ UNCHANGED giouVars
    /\ UNCHANGED trainVars

NextDecode == Inference \/ Postprocessing

SpecDecode == InitDecode /\ [][NextDecode]_vars

\* every row returned by inference_single_video has end > start
DecodedRowsOrdered ==
    pc \in {"postprocessing", "done"} =>
        \A i \in 1..Len(results) : RLt(results[i].segment[1], results[i].segment[2])

\* C10 as stated: every segment retained past decoding has end > start, both
\* in the output of inference_single_video and in the final detections of
\* postprocessing.
C10_Original ==
    /\ DecodedRowsOrdered
    /\ pc = "done" =>
          \A i \in 1..Len(processed_results) :
              RLt(processed_results[i].segment[1], processed_results[i].segment[2])

\* C10: every segment output by inference_single_video has end > start; a
\* final detection has end >= start, and end > start when the video's
\* duration is positive, its rescaled start lies before the duration and
\* its rescaled end after 0.
C10_FinalSegmentsOrderedUnlessClipped ==
    /\ DecodedRowsOrdered
    /\ pc = "done" =>
          \A i \in 1..Len(processed_results) :
              LET seg == processed_results[i].segment
                  raw == nms_results[i].segment
                  vlen == video_list[1].duration
              IN  /\ RLe(seg[1], seg[2])
                  /\ (/\ RLt(Zero, vlen)
                      /\ RLt(Rescale(raw[1], video_list[1]), vlen)
                      /\ RLt(Zero, Rescale(raw[2], video_list[1]))) =>
                         RLt(seg[1], seg[2])

\* a row with end > start on the feature grid is a final detection clipped
\* to (duration, duration)
C10_Witness ==
    /\ pc = "done"
    /\ \E i \in 1..Len(processed_results) :
          /\ RLt(nms_results[i].segment[1], nms_results[i].segment[2])
          /\ processed_results[i].segment =
                <<video_list[1].duration, video_list[1].duration>>

\* the boundaries of final detection i, and of the row it was made from
FinalBoundaries(i) ==
    {<<nms_results[i].segment[k], processed_results[i].segment[k]>> : k \in {1, 2}}

\* C11: postprocessing maps each boundary b of a surviving detection to
\* (b * feat_stride + 0.5 * feat_num_frames) / fps, values <= 0 become 0,
\* values >= duration become duration, and every result lies in
\* [0, duration].
C11_RescaledAndClipped ==
    pc = "done" =>
        /\ Len(processed_results) = Len(nms_results)
        /\ \A i \in 1..Len(processed_results) : \A bo \in FinalBoundaries(i) :
              LET meta == video_list[1]
                  r == RDiv(RAdd(RMul(bo[1], meta.feat_stride),
                                 RMul(<<1, 2>>, meta.feat_num_frames)), meta.fps)
              IN  /\ RLe(Zero, bo[2]) /\ RLe(bo[2], meta.duration)
                  /\ RLe(r, Zero) => bo[2] = Zero
                  /\ RLe(meta.duration, r) => bo[2] = meta.duration
                  /\ (RLt(Zero, r) /\ RLt(r, meta.duration)) => bo[2] = r

\* one final detection has its start clipped to 0 and its end to duration,
\* another one keeps a boundary strictly inside
C11_Witness ==
    /\ pc = "done"
    /\ \E i \in 1..Len(processed_results) :
          /\ RLt(Rescale(nms_results[i].segment[1], video_list[1]), Zero)
          /\ RLt(video_list[1].duration, Rescale(nms_results[i].segment[2], video_list[1]))
          /\ processed_results[i].segment = <<Zero, video_list[1].duration>>
    /\ \E i \in 1..Len(processed_results) :
          /\ RLt(Zero, processed_results[i].segment[1])
          /\ RLt(processed_results[i].segment[1], video_list[1].duration)

\* the (point, noun rank, verb rank) positions of the product tensor of level l
TensorPositions(l) ==
    (0..(Len(DecodeLevels[l]) - 1)) \X (0..(noun_topk - 1)) \X (0..(verb_topk - 1))

\* the decomposition of flat index i
Decomposed(i) == <<PtIdxs(i), ClsNounIdxs1(i), ClsVerbIdxs1(i)>>

\* C12: the index decomposition is a bijection between the flat indices of
\* the [T x noun_topk x verb_topk] product tensor and its positions, i is
\* pt * verb_topk * noun_topk + noun_rank * verb_topk + verb_rank, the score
\* at i is noun_score[pt][noun_rank] * verb_score[pt][verb_rank], and the
\* labels of every decoded row are the classes whose probabilities formed
\* its score.
C12_DecompositionIsLayout ==
    /\ pc = "inference" =>
          \A l \in 1..Len(DecodeLevels) : \A pred_prob \in {PredProb(l)} :
              /\ \A i \in DOMAIN pred_prob :
                    /\ Decomposed(i) \in TensorPositions(l)
                    /\ i = PtIdxs(i) * verb_topk * noun_topk
                           + ClsNounIdxs1(i) * verb_topk + ClsVerbIdxs1(i)
                    /\ pred_prob[i] =
                          RMul(NounTopk(l, PtIdxs(i))[ClsNounIdxs1(i) + 1].score,
                               VerbTopk(l, PtIdxs(i))[ClsVerbIdxs1(i) + 1].score)
              /\ \A i, j \in DOMAIN pred_prob : Decomposed(i) = Decomposed(j) => i = j
              /\ \A pos \in TensorPositions(l) :
                    \E i \in DOMAIN pred_prob : Decomposed(i) = pos
    /\ pc = "postprocessing" =>
          \A k \in 1..Len(results) :
              results[k].score =
                  RMul(preds[results[k].pt].cls_noun[results[k].label_noun + 1],
                       preds[results[k].pt].cls_verb[results[k].label_verb + 1])

\* one decoded row pairs the best noun of its point with its second verb, and
\* one pairs the best verb of its point with its second noun
C12_Witness ==
    /\ pc = "postprocessing"
    /\ \E k \in 1..Len(results) :
          /\ results[k].label_noun = SortDesc(preds[results[k].pt].cls_noun)[1].label
          /\ results[k].label_verb = SortDesc(preds[results[k].pt].cls_verb)[2].label
    /\ \E k \in 1..Len(results) :
          /\ results[k].label_noun = SortDesc(preds[results[k].pt].cls_noun)[2].label
          /\ results[k].label_verb = SortDesc(preds[results[k].pt].cls_verb)[1].label

\* the pyramid level a decoded row was gathered from
RowLevel(row) ==
    CHOOSE l \in 1..Len(DecodeLevels) :
        LevelBase(l) < row.pt /\ row.pt <= LevelBase(l) + Len(DecodeLevels[l])

\* pre_nms_thresh squared, the threshold of line 1451
ThreshSquared == RMul(test_cfg.pre_nms_thresh, test_cfg.pre_nms_thresh)

\* C13: at each pyramid level the decoder keeps only candidates whose fused
\* score is strictly greater than pre_nms_thresh squared, keeps at most
\* pre_nms_topk of them, and no discarded above-threshold candidate has a
\* score higher than a kept one.  Stated on every index vector topk_idxs the
\* sort of lines 1456-1459 can produce, and on the rows inference returns.
C13_ThresholdThenTopk ==
    /\ pc = "inference" =>
          \A l \in 1..Len(DecodeLevels) : \A pred_prob \in {PredProb(l)} :
              \A topk_idxs \in TopkOrders(pred_prob, KeepIdxs1(l),
                                          Min(test_cfg.pre_nms_topk,
                                              Cardinality(KeepIdxs1(l)))) :
                  /\ Len(topk_idxs) <= test_cfg.pre_nms_topk
                  /\ \A k \in 1..Len(topk_idxs) :
                        /\ topk_idxs[k] \in DOMAIN pred_prob
                        /\ RLt(ThreshSquared, pred_prob[topk_idxs[k]])
                        /\ \A m \in 1..Len(topk_idxs) :
                              topk_idxs[m] = topk_idxs[k] => m = k
                  /\ \A i \in DOMAIN pred_prob :
                        (/\ RLt(ThreshSquared, pred_prob[i])
                         /\ \A k \in 1..Len(topk_idxs) : topk_idxs[k] # i)
                        => /\ Len(topk_idxs) = test_cfg.pre_nms_topk
                           /\ \A k \in 1..Len(topk_idxs) :
                                 RLe(pred_prob[i], pred_prob[topk_idxs[k]])
    /\ pc = "postprocessing" =>
          \A l \in 1..Len(DecodeLevels) : \A pred_prob \in {PredProb(l)} :
              /\ Cardinality({k \in 1..Len(results) : RowLevel(results[k]) = l})
                    <= test_cfg.pre_nms_topk
              /\ \A k \in 1..Len(results) :
                    RowLevel(results[k]) = l =>
                        /\ RLt(ThreshSquared, results[k].score)
                        /\ Cardinality({i \in DOMAIN pred_prob :
                                           RLt(results[k].score, pred_prob[i])})
                              < test_cfg.pre_nms_topk

\* a level with a candidate at or below the threshold and more candidates
\* above it than pre_nms_topk: the pre_nms_topk best are returned, and an
\* above-threshold candidate is left out
C13_Witness ==
    /\ pc = "postprocessing"
    /\ \E l \in 1..Len(DecodeLevels) : \A pred_prob \in {PredProb(l)} :
          /\ \E i \in DOMAIN pred_prob :
                RLt(Zero, pred_prob[i]) /\ RLe(pred_prob[i], ThreshSquared)
          /\ Cardinality({i \in DOMAIN pred_prob : RLt(ThreshSquared, pred_prob[i])})
                > test_cfg.pre_nms_topk
          /\ Cardinality({k \in 1..Len(results) : RowLevel(results[k]) = l})
                = test_cfg.pre_nms_topk

---------------------------------------------------------------------------
(* Properties of the assigner                                              *)

Labelled == pc = "labelled"

BatchIdx == 1..Len(gt_segments)

PointIdx == 1..Len(points)

\* the stride-normalised (left, right) of point p to segment g
NormalisedOffsets(p, g) ==
    << Rat(p.t - g[1], p.stride), Rat(g[2] - p.t, p.stride) >>

Foreground(b, p) ==
    \/ gt_targets.cls_v[b][p] # num_classes_verb
    \/ gt_targets.cls_n[b][p] # num_classes_noun

\* the segments of video b that pass the inside test and the range test at p
Admissible(b, p) ==
    {g \in 1..Len(gt_segments[b]) :
        /\ InsideGtSegMask(train_center_sample, points[p], gt_segments[b][g])
        /\ InsideRegressRange(points[p], gt_segments[b][g])}

Duration(b, g) == gt_segments[b][g][2] - gt_segments[b][g][1]

\* C1: in both center-sampling modes, a point assigned to a segment g has
\* left = t - g.start >= 0, right = g.end - t >= 0, and max(left, right)
\* within the point's [reg_min, reg_max]; its regression target is that
\* (left, right) divided by the stride.
C1_AssignedInsideAndInRange ==
    Labelled =>
        \A b \in BatchIdx : \A p \in PointIdx :
            Foreground(b, p) =>
                LET g == gt_segments[b][min_len_inds[b][p]]
                    left == points[p].t - g[1]
                    right == g[2] - points[p].t
                IN  /\ left >= 0
                    /\ right >= 0
                    /\ Max(left, right) >= points[p].reg_min
                    /\ Max(left, right) <= points[p].reg_max
                    /\ gt_targets.offset[b][p] = NormalisedOffsets(points[p], g)

\* a point of the stride-2 level is assigned under 'radius' sampling
C1_Witness ==
    /\ Labelled
    /\ train_center_sample = "radius"
    /\ \E b \in BatchIdx : \E p \in PointIdx :
          Foreground(b, p) /\ points[p].stride = 2

\* C2: at every point with an admissible segment, the assigned segment is
\* admissible, no admissible segment is shorter, and the verb target, the
\* noun target and the offsets all come from that one segment.
C2_ShortestAdmissibleWins ==
    Labelled =>
        \A b \in BatchIdx : \A p \in PointIdx :
            Admissible(b, p) # {} =>
                LET i == min_len_inds[b][p]
                IN  /\ i \in Admissible(b, p)
                    /\ \A h \in Admissible(b, p) : Duration(b, i) <= Duration(b, h)
                    /\ gt_targets.cls_v[b][p] = gt_labels_v[b][i]
                    /\ gt_targets.cls_n[b][p] = gt_labels_n[b][i]
                    /\ gt_targets.offset[b][p] =
                           NormalisedOffsets(points[p], gt_segments[b][i])

\* point t = 5 with segments (0, 10) and (4, 6), both admissible, has the
\* offsets (1, 1) of (4, 6) and its labels
C2_Witness ==
    /\ Labelled
    /\ points = PointsOneLevel
    /\ gt_segments = << << <<0, 10>>, <<4, 6>> >> >>
    /\ Admissible(1, 6) = {1, 2}
    /\ gt_targets.offset[1][6] = <<One, One>>
    /\ gt_targets.cls_v[1][6] = gt_labels_v[1][2]
    /\ gt_targets.cls_n[1][6] = gt_labels_n[1][2]

\* the end-to-end case: six anchors t = 0..5, stride 1, range [0, 8], one
\* ground truth (2, 4) with verb = 1 and noun = 1
E2EScenario ==
    /\ Labelled
    /\ points = PointsOneLevel
    /\ gt_segments = << << <<2, 4>> >> >>
    /\ gt_labels_v = << <<1>> >>
    /\ gt_labels_n = << <<1>> >>

\* C3 as stated: anchors 2 and 3 are assigned verb 1 / noun 1 with offsets
\* (0, 2) and (1, 1); anchors 0, 1, 4, 5 are background.
C3_Original ==
    E2EScenario =>
        /\ gt_targets.cls_v[1] = <<num_classes_verb, num_classes_verb, 1, 1,
                                   num_classes_verb, num_classes_verb>>
        /\ gt_targets.cls_n[1] = <<num_classes_noun, num_classes_noun, 1, 1,
                                   num_classes_noun, num_classes_noun>>
        /\ gt_targets.offset[1][3] = <<Zero, <<2, 1>> >>
        /\ gt_targets.offset[1][4] = <<One, One>>

\* C3 (amended): only anchor 3 is assigned verb 1 / noun 1, with offsets
\* (1, 1); anchors 0, 1, 2, 4, 5 are background (anchor 2 sits on the start
\* of the segment and the inside test is strict).
C3_OnlyAnchorThreeAssigned ==
    E2EScenario =>
        /\ gt_targets.cls_v[1] = <<num_classes_verb, num_classes_verb,
                                   num_classes_verb, 1,
                                   num_classes_verb, num_classes_verb>>
        /\ gt_targets.cls_n[1] = <<num_classes_noun, num_classes_noun,
                                   num_classes_noun, 1,
                                   num_classes_noun, num_classes_noun>>
        /\ gt_targets.offset[1][4] = <<One, One>>

C3_Witness == E2EScenario /\ gt_targets.cls_v[1][4] = 1

\* C4 as stated: a batch with a video without ground truth is labelled without
\* error, that video getting the sentinel at every point in both taxonomies
\* and all-zero regression targets.
C4_EmptyVideoAllBackground ==
    (pc # "label_points" /\ \E b \in BatchIdx : Len(gt_segments[b]) = 0) =>
        /\ raised = "none"
        /\ pc = "labelled"
        /\ \A b \in BatchIdx : Len(gt_segments[b]) = 0 =>
              \A p \in PointIdx :
                  /\ gt_targets.cls_v[b][p] = num_classes_verb
                  /\ gt_targets.cls_n[b][p] = num_classes_noun
                  /\ gt_targets.offset[b][p] = <<Zero, Zero>>

\* C5 as stated: with at least one ground truth, a point admissible for no
\* segment gets both sentinels and the regression target (0, 0).
C5_Original ==
    Labelled =>
        \A b \in BatchIdx : \A p \in PointIdx :
            Admissible(b, p) = {} =>
                /\ gt_targets.cls_v[b][p] = num_classes_verb
                /\ gt_targets.cls_n[b][p] = num_classes_noun
                /\ gt_targets.offset[b][p] = <<Zero, Zero>>

\* C5 (amended): with at least one ground truth, a point admissible for no
\* segment gets both sentinels; its regression target is not zeroed, it is
\* the stride-normalised (left, right) to the first segment of the video.
C5_BackgroundKeepsFirstSegmentOffsets ==
    Labelled =>
        \A b \in BatchIdx : \A p \in PointIdx :
            Admissible(b, p) = {} =>
                /\ gt_targets.cls_v[b][p] = num_classes_verb
                /\ gt_targets.cls_n[b][p] = num_classes_noun
                /\ gt_targets.offset[b][p] =
                       NormalisedOffsets(points[p], gt_segments[b][1])

\* a background point of a video with two segments whose target is not zero
C5_Witness ==
    /\ Labelled
    /\ \E b \in BatchIdx : \E p \in PointIdx :
          /\ Len(gt_segments[b]) = 2
          /\ Admissible(b, p) = {}
          /\ gt_targets.cls_v[b][p] = num_classes_verb
          /\ gt_targets.offset[b][p] # <<Zero, Zero>>

\* C9: for a non-empty ground truth, zero-length segments included, every
\* start_score and end_score entry at every resolution lies in [0, 1].
C9_BoundaryScoresInUnitInterval ==
    Labelled =>
        \A b \in BatchIdx :
            /\ \A i \in DOMAIN gt_targets.start[b] :
                  RLe(Zero, gt_targets.start[b][i]) /\ RLe(gt_targets.start[b][i], One)
            /\ \A i \in DOMAIN gt_targets.end[b] :
                  RLe(Zero, gt_targets.end[b][i]) /\ RLe(gt_targets.end[b][i], One)

\* a zero-length segment whose start window overlaps an anchor
C9_Witness ==
    /\ Labelled
    /\ \E b \in BatchIdx :
          /\ \E g \in 1..Len(gt_segments[b]) : Duration(b, g) = 0
          /\ \A g \in 1..Len(gt_segments[b]) : Duration(b, g) = 0
          /\ \E i \in DOMAIN gt_targets.start[b] : RLt(Zero, gt_targets.start[b][i])
          /\ Len(gt_targets.start[b]) = SumTo(num_levels, 6)

\* position, minus one, of the first anchor of resolution l in the label
\* vectors start_score, end_score and actionness
AuxLevelBase(l) == SumTo([k \in 1..6 |-> num_levels[k]], l - 1)

\* the ground truths of video b whose closed span, rescaled to resolution
\* l, holds the anchor index ii
Covering(b, l, ii) ==
    {k \in 1..Len(gt_segments[b]) :
        /\ gt_segments[b][k][1] <= level_ratio[l] * ii
        /\ level_ratio[l] * ii <= gt_segments[b][k][2]}

\* |ii - gt_center| at resolution l for ground truth k of video b
CentreDistance(b, l, ii, k) ==
    <<Abs(2 * level_ratio[l] * ii - (gt_segments[b][k][1] + gt_segments[b][k][2])),
      2 * level_ratio[l]>>

\* the same value of two quotients
REq(a, b) == RLe(a, b) /\ RLe(b, a)

\* C18: at each of the six resolutions an anchor index in no rescaled
\* ground-truth span [gt.start, gt.end] (closed) gets the actionness label
\* 0.1, and an anchor in one or more spans gets the Gaussian score of its
\* distance to the centre of the LAST such ground truth in iteration order.
C18_ActionnessLastCoveringWins ==
    pc = "labelled" =>
        \A b \in BatchIdx : \A l \in 1..6 : \A ii \in 0..(num_levels[l] - 1) :
            \A K \in {Covering(b, l, ii)} :
                \A lab \in {gt_targets.action[b][AuxLevelBase(l) + ii + 1]} :
                    /\ K = {} => lab.floor
                    /\ K # {} =>
                          /\ ~lab.floor
                          /\ \E k \in K :
                                /\ \A m \in K : m <= k
                                /\ REq(lab.dist, CentreDistance(b, l, ii, k))

\* an anchor covered by two ground truths whose centres lie at different
\* distances, labelled from the second; and an anchor covered by none
C18_Witness ==
    /\ pc = "labelled"
    /\ \E b \in BatchIdx : \E l \in 1..6 : \E ii, jj \in 0..(num_levels[l] - 1) :
          /\ Covering(b, l, ii) = {1, 2}
          /\ ~REq(CentreDistance(b, l, ii, 1), CentreDistance(b, l, ii, 2))
          /\ REq(gt_targets.action[b][AuxLevelBase(l) + ii + 1].dist,
                 CentreDistance(b, l, ii, 2))
          /\ Covering(b, l, jj) = {}
          /\ gt_targets.action[b][AuxLevelBase(l) + jj + 1].floor

\* C19: for every anchor within at least one ground-truth span, the
\* actionness label is the Gaussian score of the anchor's distance to the
\* NEAREST ground-truth centre, for any number and ordering of overlapping
\* ground truths.  Nearest is taken among the ground truths whose span holds
\* the anchor; the label of the code is farther than that for some inputs.
C19_ActionnessNearestCentre ==
    pc = "labelled" =>
        \A b \in BatchIdx : \A l \in 1..6 : \A ii \in 0..(num_levels[l] - 1) :
            \A K \in {Covering(b, l, ii)} :
                \A lab \in {gt_targets.action[b][AuxLevelBase(l) + ii + 1]} :
                    K # {} =>
                        /\ ~lab.floor
                        /\ \A k \in K : RLe(lab.dist, CentreDistance(b, l, ii, k))

C28_NoCandidateFromInvalidPoint ==
    /\ pc = "inference" =>
          \A l \in 1..Len(DecodeLevels) : \A keep \in {KeepIdxs1(l)} :
              \A i \in keep : preds[LevelBase(l) + PtIdxs(i) + 1].mask
    /\ pc \in {"postprocessing", "done"} =>
          \A k \in 1..Len(results) : preds[results[k].pt].mask

C28_Witness ==
    /\ pc = "postprocessing"
    /\ test_cfg.pre_nms_thresh = Zero
    /\ ~preds[1].mask
    /\ \E g \in 2..Len(preds) : ~preds[g].mask
    /\ results # <<>>

---------------------------------------------------------------------------
(* Dataset: EpicKitchensDataset.__getitem__ and truncate_feats             *)

\* value of the model's variables where the dataset or the script is driven
NoModel ==
    /\ train_center_sample = "none"
    /\ points = <<>>
    /\ gt_segments = <<>>
    /\ gt_labels_v = <<>>
    /\ gt_labels_n = <<>>
    /\ gt_targets = NoTargets
    /\ min_len_inds = <<>>
    /\ giou_args = <<>>
    /\ giou_ret = <<>>
    /\ NoTrainStep
    /\ NoDecode

modelVars == <<assignVars, giouVars, trainVars, decodeVars>>

\* longest feature sequence of a video
MaxFeatLen == 6

\* trials of the window sampler (200 in the code)
max_num_trials == 2

\* Python's round(): to the nearest integer, halves to the even one
PyRound(x) ==
    LET q == x[1] \div x[2]
        r2 == 2 * (x[1] % x[2])
    IN  IF r2 < x[2] THEN q
        ELSE IF r2 > x[2] THEN q + 1
        ELSE IF q % 2 = 0 THEN q ELSE q + 1

\* annotated segments in seconds; (2, 2) has no extent
SecSegs ==
    {<< <<1, 2>>, <<3, 2>> >>, << <<1, 1>>, <<2, 1>> >>, << <<3, 2>>, <<3, 1>> >>,
     << <<2, 1>>, <<2, 1>> >>, << <<1, 2>>, <<4, 1>> >>}

\* database entries: one or two annotations, or none (segments is None);
\* feat_len is the length of the feature files __getitem__ loads by id
VideoItems ==
    {[id |-> "v", fps |-> <<2, 1>>, duration |-> <<4, 1>>, is_none |-> FALSE,
      segments |-> segs, labels_v |-> [k \in 1..Len(segs) |-> k - 1],
      labels_n |-> [k \in 1..Len(segs) |-> k], feat_len |-> T] :
        segs \in {<<g>> : g \in SecSegs} \cup {<<g, h>> : g \in SecSegs, h \in SecSegs},
        T \in {3, MaxFeatLen}}
    \cup {[id |-> "v", fps |-> <<2, 1>>, duration |-> <<4, 1>>, is_none |-> TRUE,
           segments |-> <<>>, labels_v |-> <<>>, labels_n |-> <<>>, feat_len |-> 3]}

DatasetCfgs ==
    [is_training : BOOLEAN, max_seq_len : {4}, trunc_thresh : {Zero, Half},
     crop_ratio : {<<>>, <<Half, One>>}, num_frames : {<<2, 1>>},
     feat_stride : {One}, downsample_rate : {One}]

\* line 225: seconds to feature-grid units
ToFeatureGrid(sec, item, cfg) ==
    RDiv(RSub(RMul(sec, item.fps), RMul(Half, cfg.num_frames)),
         RMul(cfg.feat_stride, cfg.downsample_rate))

\* lines 98-103 for one segment: inter / area_segs, nan for 0 / 0
InterRatio(seg, st, ed) ==
    LET left == RMax(<<st, 1>>, seg[1])
        right == RMin(<<ed, 1>>, seg[2])
        inter == RMax(RSub(right, left), Zero)
        diff == RSub(seg[2], seg[1])
        area_segs == <<Abs(diff[1]), diff[2]>>
    IN  IF area_segs = Zero
        THEN [nan |-> inter = Zero, inf |-> inter # Zero, v |-> Zero,
              left |-> left, right |-> right]
        ELSE [nan |-> FALSE, inf |-> FALSE, v |-> RDiv(inter, area_segs),
              left |-> left, right |-> right]

\* line 106: comparisons with nan are False
SegIdx(seg, st, ed, trunc_thresh) ==
    \A r \in {InterRatio(seg, st, ed)} :
        ~r.nan /\ (r.inf \/ RLe(trunc_thresh, r.v))

\* tensor[seg_idx]
Masked(seq, seg_idx) ==
    LET keep == SelectSeq([k \in 1..Len(seq) |-> k], LAMBDA k : seg_idx[k])
    IN  [i \in 1..Len(keep) |-> seq[keep[i]]]

InitTruncate ==
    /\ NoModel
    /\ NoLoad
    /\ NoMain
    /\ NoPrep
    /\ num_pos_seen = <<>>
    /\ video_item \in VideoItems
    /\ dataset_cfg \in DatasetCfgs
    /\ data_dict = <<>>
    /\ trunc = <<>>
    /\ pc = "getitem"
    /\ raised = "none"
    /\ raised_in = "none"

\* __getitem__, lines 176-245; without annotations line 230 binds segments
\* and labels, and line 237 reads labels_v
GetItem ==
    /\ pc = "getitem"
    /\ IF video_item.is_none
       THEN /\ raised' = "UnboundLocalError"
            /\ raised_in' = "__getitem__"
            /\ pc' = "error"
            /\ UNCHANGED data_dict
       ELSE /\ data_dict' =
                  [video_id |-> video_item.id,
                   feat_len |-> video_item.feat_len,
                   segments |->
                       [k \in 1..Len(video_item.segments) |->
                           <<ToFeatureGrid(video_item.segments[k][1], video_item,
                                           dataset_cfg),
                             ToFeatureGrid(video_item.segments[k][2], video_item,
                                           dataset_cfg)>>],
                   labels_v |-> video_item.labels_v,
                   labels_n |-> video_item.labels_n]
            /\ pc' = IF dataset_cfg.is_training THEN "truncate_feats" ELSE "returned"
            /\ UNCHANGED <<raised, raised_in>>
    /\ UNCHANGED <<video_item, dataset_cfg, trunc>>
    /\ UNCHANGED <<modelVars, loadVars, mainVars, prepVars, num_pos_seen>>

\* truncate_feats, lines 47-66
TruncateFeats ==
    /\ pc = "truncate_feats"
    /\ LET feat_len == data_dict.feat_len
           start(m) == [max_seq_len |-> m, trials |-> 0, st |-> 0, ed |-> 0,
                        seg_idx |-> <<>>]
       IN  IF feat_len <= dataset_cfg.max_seq_len
           THEN IF dataset_cfg.crop_ratio = <<>>
                THEN pc' = "returned" /\ UNCHANGED trunc
                ELSE \E m \in Max(PyRound(RMul(dataset_cfg.crop_ratio[1],
                                               <<feat_len, 1>>)), 1)
                              ..Min(PyRound(RMul(dataset_cfg.crop_ratio[2],
                                                 <<feat_len, 1>>)), feat_len) :
                         IF m = feat_len
                         THEN pc' = "returned" /\ UNCHANGED trunc
                         ELSE pc' = "trial" /\ trunc' = start(m)
           ELSE pc' = "trial" /\ trunc' = start(dataset_cfg.max_seq_len)
    /\ UNCHANGED <<video_item, dataset_cfg, data_dict, raised, raised_in>>
    /\ UNCHANGED <<modelVars, loadVars, mainVars, prepVars, num_pos_seen>>

\* one iteration of the loop of lines 73-119 (has_action, no no_trunc)
TruncateTrial ==
    /\ pc = "trial"
    /\ \E st \in 0..(data_dict.feat_len - trunc.max_seq_len) :
          \E seg_idx \in {[k \in 1..Len(data_dict.segments) |->
                              SegIdx(data_dict.segments[k], st, st + trunc.max_seq_len,
                                     dataset_cfg.trunc_thresh)]} :
              /\ trunc' = [trunc EXCEPT !.trials = @ + 1, !.st = st,
                                        !.ed = st + trunc.max_seq_len,
                                        !.seg_idx = seg_idx]
              /\ pc' = IF \/ \E k \in 1..Len(seg_idx) : seg_idx[k]
                          \/ trunc.trials + 1 = max_num_trials
                       THEN "crop" ELSE "trial"
    /\ UNCHANGED <<video_item, dataset_cfg, data_dict, raised, raised_in>>
    /\ UNCHANGED <<modelVars, loadVars, mainVars, prepVars, num_pos_seen>>

\* lines 122-131, with the window and the selection of the last iteration
TruncateCrop ==
    /\ pc = "crop"
    /\ data_dict' =
          [data_dict EXCEPT
              !.feat_len = trunc.ed - trunc.st,
              !.segments =
                  Masked([k \in 1..Len(data_dict.segments) |->
                             \* InterRatio binds left and right
                             <<RSub(InterRatio(data_dict.segments[k], trunc.st,
                                               trunc.ed).left, <<trunc.st, 1>>),
                               RSub(InterRatio(data_dict.segments[k], trunc.st,
                                               trunc.ed).right, <<trunc.st, 1>>)>>],
                         trunc.seg_idx),
              !.labels_v = Masked(data_dict.labels_v, trunc.seg_idx),
              !.labels_n = Masked(data_dict.labels_n, trunc.seg_idx)]
    /\ pc' = "returned"
    /\ UNCHANGED <<video_item, dataset_cfg, trunc, raised, raised_in>>
    /\ UNCHANGED <<modelVars, loadVars, mainVars, prepVars, num_pos_seen>>

NextTruncate == GetItem \/ TruncateFeats \/ TruncateTrial \/ TruncateCrop

SpecTruncate == InitTruncate /\ [][NextTruncate]_vars

\* C23: every ground-truth segment that __getitem__ (through truncate_feats
\* in training) hands on satisfies end > start, for any trunc_thresh, any
\* window position and both the truncating and the pass-through path.
C23_HandedSegmentsOrdered ==
    pc = "returned" =>
        \A k \in 1..Len(data_dict.segments) :
            RLt(data_dict.segments[k][1], data_dict.segments[k][2])

\* the truncating path with a positive trunc_thresh returns segments with
\* end > start, whatever the annotations are
TruncatedSegmentsOrdered ==
    (/\ pc = "returned" /\ trunc # <<>>
     /\ RLt(Zero, dataset_cfg.trunc_thresh)) =>
        \A k \in 1..Len(data_dict.segments) :
            RLt(data_dict.segments[k][1], data_dict.segments[k][2])

\* C24: truncate_feats with has_action=True and an input with at least one
\* segment always returns a truncation holding at least one action segment,
\* whatever window positions the sampler draws within max_num_trials trials.
C24_TruncationKeepsAnAction ==
    (pc = "returned" /\ dataset_cfg.is_training) =>
        Len(data_dict.segments) >= 1

---------------------------------------------------------------------------
(* Constructor and preprocessing: PtTransformer.__init__, lines 601-623,   *)
(* and preprocessing_visual / preprocessing_audio (the same code)          *)

\* longest input sequence
MaxInputLen == 26

\* number of pyramid levels, backbone_arch[-1] + 1
NumFpnLevels == 3

WinSizes == {1, 3, 7}

\* constructor arguments: n_mha_win_size is an int (is_int) or a list of sizes
ModelCfgs ==
    [scale_factor : {2}, fpn_levels : {NumFpnLevels}, max_seq_len : {8, 12, 24},
     n_mha_win_size : [is_int : {TRUE}, v : WinSizes]
                      \cup [is_int : {FALSE},
                            v : [1..NumFpnLevels -> WinSizes] \cup {<<3, 3>>}],
     training : BOOLEAN]

RECURSIVE Pow(_, _)
Pow(b, n) == IF n = 0 THEN 1 ELSE b * Pow(b, n - 1)

\* line 601
FpnStrides(cfg) == [l \in 1..cfg.fpn_levels |-> Pow(cfg.scale_factor, l - 1)]

\* lines 612-616; <<>> when the assertion of line 615 fails
MhaWinSize(cfg) ==
    IF cfg.n_mha_win_size.is_int
    THEN [l \in 1..cfg.fpn_levels |-> cfg.n_mha_win_size.v]
    ELSE IF Len(cfg.n_mha_win_size.v) = cfg.fpn_levels
         THEN cfg.n_mha_win_size.v
         ELSE <<>>

\* line 619: the divisor level l requires
LevelStride(cfg, l) ==
    LET s == FpnStrides(cfg)[l]
        w == MhaWinSize(cfg)[l]
    IN  IF w > 1 THEN s * (w \div 2) * 2 ELSE s

\* lines 617-623: the running maximum over the first l levels
RECURSIVE MaxDivFactor(_, _)
MaxDivFactor(cfg, l) ==
    IF l = 0 THEN 1 ELSE Max(MaxDivFactor(cfg, l - 1), LevelStride(cfg, l))

InitPrep ==
    /\ NoModel
    /\ NoDataset
    /\ NoLoad
    /\ NoMain
    /\ num_pos_seen = <<>>
    /\ model_cfg \in ModelCfgs
    /\ feats_lens \in 1..MaxInputLen
    /\ max_div_factor = 1
    /\ max_len = 0
    /\ pc = "__init__"
    /\ raised = "none"
    /\ raised_in = "none"

\* __init__, lines 601-623
Construct ==
    /\ pc = "__init__"
    /\ IF \/ MhaWinSize(model_cfg) = <<>>
          \/ \E l \in 1..model_cfg.fpn_levels :
                model_cfg.max_seq_len % LevelStride(model_cfg, l) # 0
       THEN /\ raised' = "AssertionError"
            /\ raised_in' = "__init__"
            /\ pc' = "error"
            /\ UNCHANGED max_div_factor
       ELSE /\ max_div_factor' = MaxDivFactor(model_cfg, model_cfg.fpn_levels)
            /\ pc' = "preprocessing"
            /\ UNCHANGED <<raised, raised_in>>
    /\ UNCHANGED <<model_cfg, feats_lens, max_len>>
    /\ UNCHANGED <<modelVars, datasetVars, loadVars, mainVars, num_pos_seen>>

\* preprocessing_visual, lines 946-972, for a batch of one video
Preprocessing ==
    /\ pc = "preprocessing"
    /\ IF model_cfg.training
       THEN IF feats_lens <= model_cfg.max_seq_len
            THEN /\ max_len' = model_cfg.max_seq_len
                 /\ pc' = "preprocessed"
                 /\ UNCHANGED <<raised, raised_in>>
            ELSE /\ raised' = "AssertionError"
                 /\ raised_in' = "preprocessing"
                 /\ pc' = "error"
                 /\ UNCHANGED max_len
       ELSE /\ max_len' =
                  IF feats_lens <= model_cfg.max_seq_len THEN model_cfg.max_seq_len
                  ELSE ((feats_lens + (max_div_factor - 1)) \div max_div_factor)
                       * max_div_factor
            /\ pc' = "preprocessed"
            /\ UNCHANGED <<raised, raised_in>>
    /\ UNCHANGED <<model_cfg, feats_lens, max_div_factor>>
    /\ UNCHANGED <<modelVars, datasetVars, loadVars, mainVars, num_pos_seen>>

NextPrep == Construct \/ Preprocessing

SpecPrep == InitPrep /\ [][NextPrep]_vars

\* C25: at inference an input longer than max_seq_len is padded to the
\* smallest multiple of max_div_factor that is >= its length, and the padded
\* length is divisible by the divisor every pyramid level requires, for
\* every window-size list the constructor accepts; an input of length
\* <= max_seq_len is padded to max_seq_len.
C25_PaddedLengthDivisibleAtEveryLevel ==
    (pc = "preprocessed" /\ ~model_cfg.training) =>
        /\ feats_lens <= model_cfg.max_seq_len => max_len = model_cfg.max_seq_len
        /\ feats_lens > model_cfg.max_seq_len =>
              /\ max_len >= feats_lens
              /\ max_len % max_div_factor = 0
              /\ max_len - max_div_factor < feats_lens
              /\ \A l \in 1..model_cfg.fpn_levels :
                    max_len % LevelStride(model_cfg, l) = 0

---------------------------------------------------------------------------
(* The loss normalizer over a sequence of losses() calls                   *)

\* number of losses() calls followed
MaxCalls == 3

\* largest number of positive points of a call
MaxNumPos == 2

\* train_cfg['init_loss_norm'], one value below 1
NormInits == InitLossNorms \cup {Half}

\* the labels of one video whose first k points are positive and whose other
\* points are background
TargetsWithPositives(k) ==
    LET row(f(_)) == << [p \in 1..MaxNumPos |-> f(p)] >>
        v(p) == IF p <= k THEN 0 ELSE num_classes_verb
        n(p) == IF p <= k THEN 0 ELSE num_classes_noun
        off(p) == <<One, One>>
        st(p) == Half
        en(p) == Zero
        act(p) == [floor |-> TRUE, dist |-> Zero]
    IN  [cls_v |-> row(v), cls_n |-> row(n), offset |-> row(off),
         start |-> row(st), end |-> row(en), action |-> row(act)]

RECURSIVE LargestNumPos(_)
LargestNumPos(seen) ==
    IF seen = <<>> THEN 0
    ELSE Max(Head(seen), LargestNumPos(Tail(seen)))

InitNorm ==
    /\ NoDataset
    /\ NoLoad
    /\ NoMain
    /\ NoPrep
    /\ NoDecode
    /\ num_pos_seen = <<>>
    /\ train_center_sample = "none"
    /\ points = <<>>
    /\ gt_segments = <<>>
    /\ gt_labels_v = <<>>
    /\ gt_labels_n = <<>>
    /\ gt_targets = NoTargets
    /\ min_len_inds = <<>>
    /\ giou_args = <<>>
    /\ giou_ret = <<>>
    /\ video_list = <<>>
    /\ fpn_masks_visual = << [p \in 1..MaxNumPos |-> TRUE] >>
    /\ fpn_masks_audio = << [p \in 1..MaxNumPos |-> TRUE] >>
    /\ \E o \in {<<One, One>>, <<One, Zero>>} :
          out_offsets_visual = << [p \in 1..MaxNumPos |-> o] >>
    /\ init_loss_norm \in NormInits
    /\ loss_normalizer = init_loss_norm
    /\ losses_visaul = NoLosses
    /\ losses_audio = NoLosses
    /\ losses = NoLosses
    /\ pc = "losses"
    /\ raised = "none"
    /\ raised_in = "none"

\* one losses() call on labels with k positive points; an exception of the
\* call ends the run
LossesCall ==
    /\ pc = "losses"
    /\ Len(num_pos_seen) < MaxCalls
    /\ \E is_audio \in BOOLEAN, k \in 0..MaxNumPos :
       \E targets \in {TargetsWithPositives(k)} :
       \E r \in {Losses(is_audio,
                        IF is_audio THEN fpn_masks_audio ELSE fpn_masks_visual,
                        IF is_audio THEN <<>> ELSE out_offsets_visual,
                        targets, loss_normalizer)} :
           /\ gt_targets' = targets
           /\ num_pos_seen' = Append(num_pos_seen, k)
           /\ raised' = r.raised
           /\ raised_in' = r.raised_in
           /\ loss_normalizer' = r.loss_normalizer
           /\ IF is_audio
              THEN /\ losses_audio' = r.ret
                   /\ UNCHANGED <<losses_visaul, giouVars>>
              ELSE /\ losses_visaul' = r.ret
                   /\ giou_args' = r.giou_args
                   /\ giou_ret' = r.giou_ret
                   /\ UNCHANGED losses_audio
           /\ pc' = IF r.raised = "none" THEN "losses" ELSE "error"
    /\ UNCHANGED <<train_center_sample, points, gt_segments, gt_labels_v,
                   gt_labels_n, min_len_inds>>
    /\ UNCHANGED trainInputs
    /\ UNCHANGED losses
    /\ UNCHANGED decodeVars
    /\ UNCHANGED <<datasetVars, loadVars, mainVars, prepVars>>

NextNorm == LossesCall

SpecNorm == InitNorm /\ [][NextNorm]_vars

\* C27 as stated: the normalizer lies between min(init, 1) and
\* max(init, largest num_pos seen)
C27_Original ==
    /\ RLt(Zero, loss_normalizer)
    /\ RLe(RMin(init_loss_norm, One), loss_normalizer)
    /\ RLe(loss_normalizer,
           RMax(init_loss_norm, <<LargestNumPos(num_pos_seen), 1>>))

\* C27: after any sequence of losses() calls, visual or audio, with any
\* numbers of positive points including 0, the loss normalizer is strictly
\* positive when its initial value is, and lies between min(init, 1) and
\* max(init, 1, largest num_pos seen); the regression loss returned by a
\* visual call is divided by a strictly positive number.
C27_NormalizerPositiveAndBounded ==
    /\ RLt(Zero, loss_normalizer)
    /\ RLe(RMin(init_loss_norm, One), loss_normalizer)
    /\ RLe(loss_normalizer,
           RMax(RMax(init_loss_norm, One), <<LargestNumPos(num_pos_seen), 1>>))
    /\ losses_visaul # NoLosses => RLt(Zero, losses_visaul.reg_loss.div)

C27_Witness ==
    /\ init_loss_norm = Half
    /\ Len(num_pos_seen) = MaxCalls
    /\ \E i \in 1..Len(num_pos_seen) : num_pos_seen[i] = 0
    /\ LargestNumPos(num_pos_seen) = MaxNumPos
    /\ losses_visaul # NoLosses
    /\ RLt(init_loss_norm, loss_normalizer)

---------------------------------------------------------------------------
(* Database loading: EpicKitchensDataset._load_json_db                     *)

\* longest database file, in videos
MaxVideos == 3

\* duration of a video whose entry has none (1e8)
NoDuration == 100000000

\* an array, or None
NoneArray == [is_none |-> TRUE, v |-> <<>>]

Array(seq) == [is_none |-> FALSE, v |-> seq]

Act(seg, verb, verb_id, noun, noun_id) ==
    [segment |-> seg, label |-> verb, label_id |-> verb_id,
     label_noun |-> noun, label_id_noun |-> noun_id]

TakeCup == Act(<<1, 2>>, "take", 0, "cup", 1)

OpenDoor == Act(<<0, 3>>, "open", 1, "door", 0)

OpenCup == Act(<<2, 4>>, "open", 1, "cup", 1)

\* the values of the database: has_* tell whether the key is in the entry
JsonValues ==
    {[subset |-> "Training", has_fps |-> TRUE, fps |-> 50, has_duration |-> TRUE,
      duration |-> 10, has_annotations |-> TRUE, annotations |-> <<TakeCup>>],
     [subset |-> "training", has_fps |-> TRUE, fps |-> 50, has_duration |-> TRUE,
      duration |-> 20, has_annotations |-> TRUE, annotations |-> <<OpenDoor, TakeCup>>],
     [subset |-> "training", has_fps |-> TRUE, fps |-> 50, has_duration |-> TRUE,
      duration |-> 30, has_annotations |-> TRUE, annotations |-> <<>>],
     [subset |-> "validation", has_fps |-> TRUE, fps |-> 50, has_duration |-> FALSE,
      duration |-> 0, has_annotations |-> TRUE, annotations |-> <<OpenCup>>],
     [subset |-> "validation", has_fps |-> TRUE, fps |-> 50, has_duration |-> TRUE,
      duration |-> 40, has_annotations |-> TRUE, annotations |-> <<>>],
     [subset |-> "training", has_fps |-> TRUE, fps |-> 50, has_duration |-> TRUE,
      duration |-> 50, has_annotations |-> FALSE, annotations |-> <<>>],
     [subset |-> "training", has_fps |-> FALSE, fps |-> 0, has_duration |-> TRUE,
      duration |-> 60, has_annotations |-> TRUE, annotations |-> <<TakeCup>>]}

\* the database in file order: the keys are the video ids
JsonDbs ==
    UNION {{[i \in 1..n |-> [key |-> i, value |-> vals[i]]] :
               vals \in [1..n -> JsonValues]} : n \in 1..MaxVideos}

\* self.split and self.default_fps (0: None)
LoadCfgs ==
    [split : {{"training"}, {"validation"}, {"training", "validation"}},
     default_fps : {0, 30}]

\* str.lower() on the subset names
Lower(s) == IF s = "Training" THEN "training" ELSE s

\* lines 120-126: every annotation of the file, in file order
RECURSIVE AllActs(_, _)
AllActs(db, n) ==
    IF n = 0 THEN <<>> ELSE AllActs(db, n - 1) \o db[n].value.annotations

\* lines 118-126: label -> id, the last assignment of a label kept
LabelDict(db, noun) ==
    LET acts == AllActs(db, Len(db))
        name(act) == IF noun THEN act.label_noun ELSE act.label
        id(act) == IF noun THEN act.label_id_noun ELSE act.label_id
        names == {name(acts[i]) : i \in 1..Len(acts)}
        last(nm) == CHOOSE i \in 1..Len(acts) :
                       /\ name(acts[i]) = nm
                       /\ \A j \in 1..Len(acts) : name(acts[j]) = nm => j <= i
    IN  [nm \in names |-> id(acts[last(nm)])]

\* lines 130-169 for the videos from the i-th on.  loc holds the entries
\* built so far and the locals labels_v and labels_n, which keep their value
\* from one iteration to the next (bound: assigned at least once).
RECURSIVE LoadLoop(_, _, _, _, _, _)
LoadLoop(db, cfg, dict_v, dict_n, i, loc) ==
    IF i > Len(db) THEN [raised |-> "none", dict_db |-> loc.dict_db]
    ELSE LET key == db[i].key
             value == db[i].value
             acts == value.annotations
             fps == IF cfg.default_fps # 0 THEN cfg.default_fps ELSE value.fps
             duration == IF value.has_duration THEN value.duration ELSE NoDuration
             annotated == value.has_annotations /\ Len(acts) > 0
             labels_v == IF annotated
                         THEN Array([k \in 1..Len(acts) |-> dict_v[acts[k].label]])
                         ELSE loc.labels_v
             labels_n == IF annotated
                         THEN Array([k \in 1..Len(acts) |-> dict_n[acts[k].label_noun]])
                         ELSE loc.labels_n
             segments == IF annotated
                         THEN Array([k \in 1..Len(acts) |-> acts[k].segment])
                         ELSE NoneArray
         IN  IF Lower(value.subset) \notin cfg.split
             THEN LoadLoop(db, cfg, dict_v, dict_n, i + 1, loc)
             ELSE IF cfg.default_fps = 0 /\ ~value.has_fps
             THEN [raised |-> "AssertionError", dict_db |-> <<>>]
             ELSE IF ~annotated /\ ~loc.bound
             THEN \* line 167 reads labels_v, which no iteration has assigned
                  [raised |-> "UnboundLocalError", dict_db |-> <<>>]
             ELSE LoadLoop(db, cfg, dict_v, dict_n, i + 1,
                           [bound |-> TRUE, labels_v |-> labels_v,
                            labels_n |-> labels_n,
                            dict_db |-> Append(loc.dict_db,
                                [id |-> key, fps |-> fps, duration |-> duration,
                                 segments |-> segments, labels_v |-> labels_v,
                                 labels_n |-> labels_n])])

\* the labels of a video taken from its own annotations, None without any
OwnLabels(value, noun) ==
    IF value.has_annotations /\ Len(value.annotations) > 0
    THEN Array([k \in 1..Len(value.annotations) |->
                   IF noun THEN value.annotations[k].label_id_noun
                   ELSE value.annotations[k].label_id])
    ELSE NoneArray

\* _load_json_db, lines 109-171, with self.label_dict_v and
\* self.label_dict_n None as __init__ leaves them
LoadJsonDbResult(db, cfg) ==
    IF \E i \in 1..Len(db) : ~db[i].value.has_annotations
    THEN \* line 121 reads value['annotations'] of every video
         [raised |-> "KeyError", dict_db |-> <<>>]
    ELSE LoadLoop(db, cfg, LabelDict(db, FALSE), LabelDict(db, TRUE), 1,
                  [bound |-> FALSE, labels_v |-> NoneArray, labels_n |-> NoneArray,
                   dict_db |-> <<>>])

InitLoad ==
    /\ NoModel
    /\ NoMain
    /\ NoPrep
    /\ num_pos_seen = <<>>
    /\ video_item = <<>>
    /\ data_dict = <<>>
    /\ trunc = <<>>
    /\ dataset_cfg \in LoadCfgs
    /\ json_db \in JsonDbs
    /\ dict_db = <<>>
    /\ pc = "_load_json_db"
    /\ raised = "none"
    /\ raised_in = "none"

LoadJsonDb ==
    /\ pc = "_load_json_db"
    /\ \E r \in {LoadJsonDbResult(json_db, dataset_cfg)} :
          /\ dict_db' = r.dict_db
          /\ raised' = r.raised
          /\ raised_in' = IF r.raised = "none" THEN "none" ELSE "_load_json_db"
          /\ pc' = IF r.raised = "none" THEN "returned" ELSE "error"
    /\ UNCHANGED <<json_db, datasetVars, mainVars, prepVars, num_pos_seen>>
    /\ UNCHANGED modelVars

NextLoad == LoadJsonDb

SpecLoad == InitLoad /\ [][NextLoad]_vars

\* C29: in _load_json_db the labels_v and labels_n of every database entry
\* are derived from that video's own annotations only: a video of the split
\* without annotations gets segments = None and does not carry the label
\* arrays of a video processed before it, whatever the order of the videos.
C29_EntryLabelsFromOwnAnnotations ==
    pc = "returned" =>
        \A k \in 1..Len(dict_db) : \A v \in {json_db[dict_db[k].id].value} :
            /\ dict_db[k].labels_v = OwnLabels(v, FALSE)
            /\ dict_db[k].labels_n = OwnLabels(v, TRUE)
            /\ Len(v.annotations) = 0 => dict_db[k].segments = NoneArray

---------------------------------------------------------------------------
(* Training script: the epoch loop of main (train.py)                      *)

\* largest max_epochs
MaxEpochs == 18

\* line 154: no periodic checkpoint up to this epoch
PeriodicSaveAfter == 15

\* args.start_epoch (0, or checkpoint['epoch'] + 1 of a resumed run),
\* args.ckpt_freq and args.stop_save_epoch
TrainArgs ==
    [start_epoch : {0, 3, 16, 17}, ckpt_freq : {0, 1, 5},
     stop_save_epoch : {2, 17, 32}]

InitMain ==
    /\ NoModel
    /\ NoDataset
    /\ NoLoad
    /\ NoPrep
    /\ num_pos_seen = <<>>
    /\ train_args \in TrainArgs
    /\ max_epochs \in 1..MaxEpochs
    /\ epoch = train_args.start_epoch
    /\ last_trained = <<>>
    /\ checkpoints = {}
    /\ pc = "main"
    /\ raised = "none"
    /\ raised_in = "none"

\* lines 149-156
SaveNow(e) ==
    \/ e = max_epochs - 1
    \/ /\ train_args.ckpt_freq > 0
       /\ e % train_args.ckpt_freq = 0
       /\ e > PeriodicSaveAfter

\* one iteration of the loop that does not break, lines 131-171
TrainOneEpoch ==
    /\ pc = "main"
    /\ epoch < max_epochs
    /\ epoch # train_args.stop_save_epoch
    /\ last_trained' = Append(last_trained, epoch)
    /\ checkpoints' = IF SaveNow(epoch) THEN checkpoints \cup {epoch} ELSE checkpoints
    /\ epoch' = epoch + 1
    /\ UNCHANGED <<pc, raised, raised_in, train_args, max_epochs>>
    /\ UNCHANGED <<modelVars, datasetVars, loadVars, prepVars, num_pos_seen>>

\* lines 132-133
BreakAtStopSaveEpoch ==
    /\ pc = "main"
    /\ epoch < max_epochs
    /\ epoch = train_args.stop_save_epoch
    /\ pc' = "done"
    /\ UNCHANGED <<raised, raised_in, mainVars>>
    /\ UNCHANGED <<modelVars, datasetVars, loadVars, prepVars, num_pos_seen>>

\* line 131: the range is exhausted
EpochsExhausted ==
    /\ pc = "main"
    /\ epoch >= max_epochs
    /\ pc' = "done"
    /\ UNCHANGED <<raised, raised_in, mainVars>>
    /\ UNCHANGED <<modelVars, datasetVars, loadVars, prepVars, num_pos_seen>>

NextMain == TrainOneEpoch \/ BreakAtStopSaveEpoch \/ EpochsExhausted

SpecMain == InitMain /\ [][NextMain]_vars

\* C30: when the training loop of main() ends, by exhausting max_epochs or by
\* reaching stop_save_epoch, a checkpoint has been saved for the last epoch
\* that was trained, for every start_epoch, ckpt_freq and stop_save_epoch.
C30_LastTrainedEpochSaved ==
    (pc = "done" /\ last_trained # <<>>) =>
        last_trained[Len(last_trained)] \in checkpoints

=============================================================================
